---- MODULE Spec2Model ----
(***************************************************************************)
(* Conversion dispatch and fallback chains of converters.convert_file.     *)
(*                                                                         *)
(* One conversion job is followed from dispatch to its terminal state.     *)
(* The conversion libraries, the office suite, the browser and the native  *)
(* automation server are the environment: each technique's exit (returns,  *)
(* raises, times out, never returns) and what it leaves on disk are chosen *)
(* nondeterministically; everything the Python code does with that exit    *)
(* is translated from the source.                                          *)
(***************************************************************************)
EXTENDS Integers, Sequences, FiniteSets, TLC

VARIABLES pc, job, strategy, pos, cur, fs, attempts, result, error, toolRuns,
          ret, call, eff, app

vars == <<pc, job, strategy, pos, cur, fs, attempts, result, error, toolRuns,
          ret, call, eff, app>>

(***************************************************************************)
(* Bounds and program constants                                            *)
(***************************************************************************)

\* Most candidate executables (office suite or browser) that are actually
\* launched within one job; the remaining candidates are not installed.
MaxToolRuns == 1

\* len(libreoffice_paths)
NumLibreOfficePaths == 7

\* len(chrome_paths)
NumChromePaths == 10

(***************************************************************************)
(* Format tokens                                                           *)
(***************************************************************************)

\* Extensions an input path can carry, as written in the path.
InputExts ==
    {"pdf", "PDF", "jpg", "jpeg", "png", "doc", "docx", "DOCX", "xls",
     "xlsx", "ppt", "pptx", "txt", "md", "dwg", "gif", ""}

\* Values of the to_format argument.
ToFormats ==
    {"docx", "xlsx", "pptx", "jpg", "png", "scannable_pdf", "scanned_pdf",
     "searchable_pdf", "dwg", "dxf", "cad", "pdf", "PDF", "DOCX", "txt",
     "jpeg", ""}

\* str.lower() on the extension tokens.
Lower(s) ==
    CASE s = "PDF" -> "pdf"
      [] s = "DOCX" -> "docx"
      [] OTHER -> s

\* supported_formats of /api/formats: source extension -> target formats.
SupportedFormats(ext) ==
    IF ext = "pdf"
    THEN {"docx", "xlsx", "pptx", "jpg", "png", "scannable_pdf",
          "scanned_pdf", "searchable_pdf", "dwg", "dxf", "cad"}
    ELSE IF ext \in {"jpg", "jpeg", "png", "docx", "doc", "xlsx", "xls",
                     "pptx", "ppt", "txt", "md"}
    THEN {"pdf"}
    ELSE {}

(***************************************************************************)
(* Routing: the if/elif ladder of convert_file                             *)
(***************************************************************************)

Route_NoCad(input_ext, to_format) ==
    IF input_ext = "pdf" THEN
        IF to_format = "docx" THEN "pdf_to_docx"
        ELSE IF to_format = "xlsx" THEN "pdf_to_excel"
        ELSE IF to_format = "pptx" THEN "pdf_to_pptx"
        ELSE IF to_format \in {"jpg", "png"} THEN "pdf_to_images"
        ELSE IF to_format \in {"dwg", "dxf"} THEN "pdf_to_cad"
        ELSE IF to_format \in {"scannable_pdf", "scanned_pdf"}
             THEN "pdf_to_scannable_pdf"
        ELSE IF to_format \in {"searchable_pdf"} THEN "pdf_to_searchable_pdf"
        ELSE "none"
    ELSE IF to_format = "pdf" THEN
        IF input_ext \in {"jpg", "jpeg", "png"} THEN "image_to_pdf"
        ELSE IF input_ext \in {"doc", "docx"} THEN "word_to_pdf"
        ELSE IF input_ext \in {"xls", "xlsx"} THEN "excel_to_pdf"
        ELSE IF input_ext \in {"ppt", "pptx"} THEN "ppt_to_pdf"
        ELSE IF input_ext = "txt" THEN "txt_to_pdf"
        ELSE IF input_ext = "md" THEN "markdown_to_pdf"
        ELSE "none"
    ELSE "none"

Route(input_ext, to_format) ==
    IF input_ext = "pdf" THEN
        IF to_format = "docx" THEN "pdf_to_docx"
        ELSE IF to_format = "xlsx" THEN "pdf_to_excel"
        ELSE IF to_format = "pptx" THEN "pdf_to_pptx"
        ELSE IF to_format \in {"jpg", "png"} THEN "pdf_to_images"
        ELSE IF to_format \in {"dwg", "dxf", "cad"} THEN "pdf_to_cad"
        ELSE IF to_format \in {"scannable_pdf", "scanned_pdf"}
             THEN "pdf_to_scannable_pdf"
        ELSE IF to_format \in {"searchable_pdf"} THEN "pdf_to_searchable_pdf"
        ELSE "none"
    ELSE IF to_format = "pdf" THEN
        IF input_ext \in {"jpg", "jpeg", "png"} THEN "image_to_pdf"
        ELSE IF input_ext \in {"doc", "docx"} THEN "word_to_pdf"
        ELSE IF input_ext \in {"xls", "xlsx"} THEN "excel_to_pdf"
        ELSE IF input_ext \in {"ppt", "pptx"} THEN "ppt_to_pdf"
        ELSE IF input_ext = "txt" THEN "txt_to_pdf"
        ELSE IF input_ext = "md" THEN "markdown_to_pdf"
        ELSE "none"
    ELSE "none"

\* The strategies that run a chain of several techniques.
OfficeStrategies == {"word_to_pdf", "excel_to_pdf", "ppt_to_pdf"}

(***************************************************************************)
(* Files                                                                   *)
(***************************************************************************)

\* OUT: output_path.  TMP: the <input base name>.pdf the office suite
\* writes into the output directory, when that is not output_path itself.
\* ALT: the path with another extension that pdf_to_images (.zip) and
\* pdf_to_cad (.txt) write and return.  CPY: the copy of the source PDF
\* that pdf_to_cad leaves beside its notice, <output base name>.pdf.
Paths == {"OUT", "TMP", "ALT", "CPY"}

NoTech == [k |-> "none", i |-> 0]

Tech(kind, idx) == [k |-> kind, i |-> idx]

\* st: "missing", "empty" (zero bytes), "partial" (bytes of an interrupted
\* write) or "full"; by: the technique that wrote the file.
Missing == [st |-> "missing", by |-> NoTech]

\* os.path.exists
Exists(f) == f.st # "missing"

\* os.path.getsize(...) > 0
NonEmpty(f) == f.st \in {"partial", "full"}

\* What a technique leaves at path p: nothing, or a file of state w.
Written(f, p, t, w) ==
    IF w = "none" THEN f ELSE [f EXCEPT ![p] = [st |-> w, by |-> t]]

\* temp_output of the office-suite branch: dirname(output_path) joined with
\* the input's base name and ".pdf".
TempOutput(j) == IF j.sameName THEN "OUT" ELSE "TMP"

(***************************************************************************)
(* Technique chains                                                        *)
(***************************************************************************)

\* The candidate executables of libreoffice_paths, in list order.
LibreOfficeChain == [i \in 1..NumLibreOfficePaths |-> Tech("lo", i)]

\* The candidate browsers of chrome_paths, in list order.
BrowserChain == [i \in 1..NumChromePaths |-> Tech("browser", i)]

\* The native automation block is entered only if os.name == 'nt'.
NativeChain(nt) == IF nt THEN <<Tech("com", 0)>> ELSE <<>>

\* word_to_pdf: native automation, office-suite candidates, docx2pdf, then
\* the in-process tier (read the document and write the HTML, browser
\* candidates on Windows, the direct PDF writer).
WordChain(nt) ==
    NativeChain(nt) \o LibreOfficeChain \o <<Tech("docx2pdf", 0)>>
        \o <<Tech("html", 0)>>
        \o (IF nt THEN BrowserChain ELSE <<>>)
        \o <<Tech("fpdf", 0)>>

\* excel_to_pdf: native automation, office-suite candidates, matplotlib
\* table rendering, plain FPDF table.
ExcelChain(nt) ==
    NativeChain(nt) \o LibreOfficeChain
        \o <<Tech("matplotlib", 0), Tech("fpdf", 0)>>

\* ppt_to_pdf: native automation, office-suite candidates, reportlab.
PptChain(nt) ==
    NativeChain(nt) \o LibreOfficeChain \o <<Tech("reportlab", 0)>>

\* The techniques of strategy s in the order the code reaches them.
Chain(s, nt) ==
    CASE s = "word_to_pdf" -> WordChain(nt)
      [] s = "excel_to_pdf" -> ExcelChain(nt)
      [] s = "ppt_to_pdf" -> PptChain(nt)
      [] s = "none" -> <<>>
      [] OTHER -> <<Tech("lib", 0)>>

(***************************************************************************)
(* What one technique's code does with the exit of its library or process  *)
(*                                                                         *)
(* An exit o is [r, w]: r is "ok" (the call returned), "raise" (it raised),*)
(* "notfound" (the executable does not exist), "timeout" (the 60 second    *)
(* timeout of subprocess.run expired); w is what the call left at its      *)
(* target path.  The outcome for the chain is [fs, v, path, reason, ok]:   *)
(* v = "return" (the strategy returns path), "next" (the chain goes on),   *)
(* "raise" (the exception reaches the strategy's outer handler); ok tells  *)
(* whether the technique itself reported success.                          *)
(***************************************************************************)

Return(f, p) == [fs |-> f, v |-> "return", path |-> p, reason |-> "none", ok |-> TRUE]

Advance(f, r) == [fs |-> f, v |-> "next", path |-> "", reason |-> r, ok |-> FALSE]

Raise(f, r) == [fs |-> f, v |-> "raise", path |-> "", reason |-> r, ok |-> FALSE]

\* The exception class of an exit that raised.
Exc(o) == IF o.r = "timeout" THEN "timeout" ELSE "exception"

ExceptException_NoTimeout(e) == e \in {"exception"}

\* `except Exception as e`: catches every exception a technique raises,
\* subprocess.TimeoutExpired included.
ExceptException(e) == e \in {"exception", "timeout"}

\* A technique's handler logs the exception and lets the chain go on.
Caught(f, e) == IF ExceptException(e) THEN Advance(f, e) ELSE Raise(f, e)

RunNative_NoReturn(t, o, f) ==
    LET f1 == Written(f, "OUT", t, o.w) IN
    IF o.r # "ok" THEN Caught(f1, Exc(o))
    ELSE IF Exists(f1.OUT) THEN [Advance(f1, "none") EXCEPT !.ok = TRUE]
    ELSE Advance(f1, "no_output")

\* Native automation (Word / Excel / PowerPoint COM server).
RunNative(t, o, f) ==
    LET f1 == Written(f, "OUT", t, o.w) IN
    IF o.r # "ok" THEN Caught(f1, Exc(o))
    ELSE IF Exists(f1.OUT) THEN Return(f1, "OUT")
    ELSE Advance(f1, "no_output")

\* One candidate of libreoffice_paths.
RunLibreOffice(t, o, f, j) ==
    LET tmp == TempOutput(j)
        f1 == Written(f, tmp, t, o.w)
    IN  IF o.r # "ok" THEN Caught(f1, Exc(o))
        ELSE IF ~Exists(f1[tmp]) THEN Advance(f1, "no_output")
        ELSE IF tmp = "OUT" THEN Return(f1, "OUT")
        \* os.rename onto an existing file raises on Windows
        ELSE IF j.nt /\ Exists(f1.OUT) THEN Caught(f1, "exception")
        ELSE Return([f1 EXCEPT !.OUT = f1.TMP, !.TMP = Missing], "OUT")

\* docx2pdf.convert(input_path, output_path)
RunDocx2pdf(t, o, f) ==
    LET f1 == Written(f, "OUT", t, o.w) IN
    IF o.r # "ok" THEN Caught(f1, Exc(o))
    ELSE IF Exists(f1.OUT) THEN Return(f1, "OUT")
    ELSE Advance(f1, "no_output")

\* One candidate browser printing the HTML to output_path.
RunBrowser(t, o, f) ==
    LET f1 == Written(f, "OUT", t, o.w) IN
    IF o.r # "ok" THEN Caught(f1, Exc(o))
    ELSE IF Exists(f1.OUT) /\ NonEmpty(f1.OUT) THEN Return(f1, "OUT")
    ELSE Advance(f1, "empty_output")

\* The handler of word_to_pdf's in-process tier: a non-empty file at
\* output_path is returned in spite of the error, otherwise re-raise.
InProcessHandler(f, e) ==
    IF Exists(f.OUT) /\ NonEmpty(f.OUT)
    THEN [Return(f, "OUT") EXCEPT !.ok = FALSE, !.reason = e]
    ELSE Raise(f, e)

\* word_to_pdf's direct PDF writer: pdf.output(output_path); return.
RunWordFpdf(t, o, f) ==
    LET f1 == Written(f, "OUT", t, o.w) IN
    IF o.r # "ok" THEN InProcessHandler(f1, Exc(o))
    ELSE Return(f1, "OUT")

\* excel_to_pdf's matplotlib rendering through PdfPages(output_path).
RunMatplotlib(t, o, f) ==
    LET f1 == Written(f, "OUT", t, o.w) IN
    IF o.r # "ok" THEN Caught(f1, Exc(o))
    ELSE IF Exists(f1.OUT) THEN Return(f1, "OUT")
    ELSE Advance(f1, "no_output")

\* excel_to_pdf's FPDF table; success sets conversion_success.
RunExcelFpdf(t, o, f) ==
    LET f1 == Written(f, "OUT", t, o.w) IN
    IF o.r # "ok" THEN Caught(f1, Exc(o))
    ELSE IF Exists(f1.OUT) THEN Return(f1, "OUT")
    ELSE Advance(f1, "no_output")

\* ppt_to_pdf's reportlab canvas; success sets conversion_success.
RunReportlab(t, o, f) ==
    LET f1 == Written(f, "OUT", t, o.w) IN
    IF o.r # "ok" THEN Caught(f1, Exc(o))
    ELSE IF Exists(f1.OUT) THEN Return(f1, "OUT")
    ELSE Advance(f1, "no_output")

\* img_format.upper()
Upper(s) ==
    CASE s = "jpg" -> "JPG"
      [] s = "png" -> "PNG"
      [] s = "jpeg" -> "JPEG"
      [] OTHER -> s

\* Image.save(..., format=name) looks the writer up by format name, and
\* the imaging library registers its writers as "JPEG" and "PNG" ("jpg" is
\* only a file extension of the JPEG writer); any other name raises
\* KeyError.
SaveFormats == {"JPEG", "PNG"}

\* pdf_to_images once convert_from_path has returned n page images: more
\* than one page goes into the archive <output base name>.zip, which is
\* returned; otherwise images[0] is saved to output_path (IndexError when
\* there is no page).  An exception inside the `with ZipFile` block leaves
\* the archive file behind.
PdfToImages(n, img_format, t, f) ==
    IF n > 1
    THEN IF Upper(img_format) \in SaveFormats
         THEN Return(Written(f, "ALT", t, "full"), "ALT")
         ELSE Raise(Written(f, "ALT", t, "partial"), "exception")
    ELSE IF n = 0 THEN Raise(f, "exception")
    ELSE IF Upper(img_format) \in SaveFormats
    THEN Return(Written(f, "OUT", t, "full"), "OUT")
    ELSE Raise(f, "exception")

PdfToCad_ReturnsOutput(t, o, f) ==
    IF o.r # "ok"
    THEN IF o.w = "none" THEN Raise(f, Exc(o))
         ELSE Raise(Written(Written(f, "ALT", t, "full"), "CPY", t, o.w), Exc(o))
    ELSE Return(Written(Written(f, "ALT", t, "full"), "CPY", t, "full"), "OUT")

\* pdf_to_cad: write the notice <output base name>.txt, copy the source
\* PDF to <output base name>.pdf, return the notice's path.  An exit that
\* raised with nothing written is a failed open() of the notice; one that
\* raised with something written is a failed copy.
PdfToCad(t, o, f) ==
    IF o.r # "ok"
    THEN IF o.w = "none" THEN Raise(f, Exc(o))
         ELSE Raise(Written(Written(f, "ALT", t, "full"), "CPY", t, o.w), Exc(o))
    ELSE Return(Written(Written(f, "ALT", t, "full"), "CPY", t, "full"), "ALT")

\* The strategies that wrap a single library call: any exception goes to
\* the outer handler.  pdf_to_images and pdf_to_cad return a path other
\* than output_path; pdf_to_scannable_pdf checks that its output exists;
\* the others return output_path unchecked.
RunLib(s, t, o, f, j) ==
    IF s = "pdf_to_cad" THEN PdfToCad(t, o, f)
    ELSE IF o.r # "ok" THEN Raise(Written(f, "OUT", t, o.w), Exc(o))
    ELSE IF s = "pdf_to_images"
    THEN PdfToImages(IF o.multi THEN 2 ELSE 1, j.to_format, t, f)
    ELSE LET f1 == Written(f, "OUT", t, o.w) IN
         IF s = "pdf_to_scannable_pdf" /\ ~Exists(f1.OUT)
         THEN Raise(f1, "exception")
         ELSE Return(f1, "OUT")

\* The outcome of technique t of strategy s for exit o.
Run(s, t, o, f, j) ==
    CASE t.k = "com" -> RunNative(t, o, f)
      [] t.k = "lo" -> RunLibreOffice(t, o, f, j)
      [] t.k = "docx2pdf" -> RunDocx2pdf(t, o, f)
      [] t.k = "browser" -> RunBrowser(t, o, f)
      [] t.k = "matplotlib" -> RunMatplotlib(t, o, f)
      [] t.k = "reportlab" -> RunReportlab(t, o, f)
      [] t.k = "fpdf" /\ s = "word_to_pdf" -> RunWordFpdf(t, o, f)
      [] t.k = "fpdf" /\ s # "word_to_pdf" -> RunExcelFpdf(t, o, f)
      [] OTHER -> RunLib(s, t, o, f, j)

(***************************************************************************)
(* Exits the environment can produce, per technique                        *)
(***************************************************************************)

Exit(r, w, m) == [r |-> r, w |-> w, multi |-> m]

\* An external application or process: it may raise, leaving nothing or an
\* interrupted file, or return, leaving nothing, a zero-byte file or a
\* complete one.
BlackBoxExits ==
    {Exit("raise", w, FALSE) : w \in {"none", "partial"}}
        \cup {Exit("ok", w, FALSE) : w \in {"none", "empty", "full"}}

\* subprocess.run(..., check=True, timeout=60) on an installed executable:
\* a non-zero exit status raises CalledProcessError, the timeout kills the
\* process (possibly in the middle of writing) and raises TimeoutExpired.
ProcessExits ==
    {Exit("raise", "none", FALSE)}
        \cup {Exit("timeout", w, FALSE) : w \in {"none", "partial"}}
        \cup {Exit("ok", w, FALSE) : w \in {"none", "empty", "full"}}

\* An in-process library writing the file itself: it raises or has written.
WriterExits ==
    {Exit("raise", w, FALSE) : w \in {"none", "partial"}}
        \cup {Exit("ok", "full", FALSE)}

\* markdown_to_pdf calls HTML(...), a name the module never imports.
Exits(s, t) ==
    CASE t.k \in {"com", "docx2pdf"} -> BlackBoxExits
      [] t.k = "lo" -> ProcessExits
      [] t.k = "browser" -> ProcessExits
      [] t.k \in {"fpdf", "matplotlib", "reportlab"} -> WriterExits
      [] t.k = "lib" /\ s = "markdown_to_pdf" -> {Exit("raise", "none", FALSE)}
      [] t.k = "lib" /\ s = "pdf_to_images" ->
            WriterExits \cup {Exit("ok", "full", TRUE)}
      [] OTHER -> WriterExits

(***************************************************************************)
(* Return values, result record and errors of convert_file                 *)
(***************************************************************************)

\* A strategy's return value is `depth` dicts {"output_path": ...} around a
\* bottom value: None ("none"), a path string ("str"), a non-empty dict
\* without an "output_path" key ("dict"), the empty dict ("emptydict"), a
\* true value of another type such as a list or a number ("other"), or a
\* false one such as 0 or [] ("zero").
BottomVal(b) == [depth |-> 0, bottom |-> b, path |-> ""]

NoneVal == BottomVal("none")

StrVal(p) == [depth |-> 0, bottom |-> "str", path |-> p]

\* {"output_path": inner}
DictVal(inner) == [inner EXCEPT !.depth = @ + 1]

\* isinstance(val, dict)
IsDict(val) == val.depth > 0 \/ val.bottom \in {"dict", "emptydict"}

\* "output_path" in val
HasOutputPath(val) == val.depth > 0

\* val["output_path"]
OutputPathOf(val) == [val EXCEPT !.depth = @ - 1]

\* isinstance(val, (str, bytes, os.PathLike))
IsPathLike(val) == val.depth = 0 /\ val.bottom = "str"

NoError == [kind |-> "none", reasons |-> <<>>]

\* raise ValueError("不支持从 ... 转换到 ...")
NotSupportedError == [kind |-> "NotSupported", reasons |-> <<>>]

\* The ValueError of process_result and of the type checks after it.
MalformedError == [kind |-> "Malformed", reasons |-> <<>>]

\* raise ValueError("转换后的文件不存在: ...")
OutputMissingError == [kind |-> "OutputMissing", reasons |-> <<>>]

StrategyError_NoWrap(s, reasons) ==
    [kind |-> "Uncaught", by |-> s, reasons |-> reasons]

\* The outer handler of every strategy:
\* except Exception as e: raise ValueError(f"...失败: {str(e)}").
\* reasons: the techniques' failure reasons the message carries.
StrategyError(s, reasons) ==
    [kind |-> "StrategyFailed", by |-> s, reasons |-> reasons]

\* if not conversion_success: raise ValueError("所有...方法均失败"),
\* re-raised by the outer handler; the message names no technique.
ExhaustedError(s) == StrategyError(s, <<>>)

\* process_result(res)
ProcessResult(res) ==
    IF res = NoneVal THEN [err |-> TRUE, val |-> res]
    ELSE IF IsDict(res)
    THEN IF HasOutputPath(res) THEN [err |-> FALSE, val |-> OutputPathOf(res)]
         ELSE [err |-> TRUE, val |-> res]
    ELSE IF ~IsPathLike(res) THEN [err |-> TRUE, val |-> res]
    ELSE [err |-> FALSE, val |-> res]

\* Python truthiness of result["output_path"]: None, "", {} and 0 are false.
Falsy(val) ==
    /\ val.depth = 0
    /\ \/ val.bottom \in {"none", "emptydict", "zero"}
       \/ val.bottom = "str" /\ val.path = ""

\* os.path.exists(path); the empty string names no file.
PathExists(f, path) == path \in DOMAIN f /\ Exists(f[path])

ConvertFileTail_NoUnwrap(val, f) ==
    LET pr == ProcessResult(val)
    IN  IF pr.err THEN [pc |-> "Failed", path |-> "", error |-> MalformedError]
        ELSE IF Falsy(pr.val)
        THEN [pc |-> "Failed", path |-> "", error |-> NotSupportedError]
        ELSE IF ~IsPathLike(pr.val)
        THEN [pc |-> "Failed", path |-> "", error |-> MalformedError]
        ELSE IF ~PathExists(f, pr.val.path)
        THEN [pc |-> "Failed", path |-> pr.val.path,
              error |-> OutputMissingError]
        ELSE [pc |-> "Success", path |-> pr.val.path, error |-> NoError]

\* convert_file after the strategy returned val: process_result, the
\* not-supported test, the unwrapping of one more dict level, the type
\* check and the existence check.
ConvertFileTail(val, f) ==
    LET pr == ProcessResult(val)
        nested == IsDict(pr.val)
        unwrapped == IF nested /\ HasOutputPath(pr.val)
                     THEN OutputPathOf(pr.val) ELSE pr.val
    IN  IF pr.err THEN [pc |-> "Failed", path |-> "", error |-> MalformedError]
        ELSE IF Falsy(pr.val)
        THEN [pc |-> "Failed", path |-> "", error |-> NotSupportedError]
        ELSE IF nested /\ ~HasOutputPath(pr.val)
        THEN [pc |-> "Failed", path |-> "", error |-> MalformedError]
        ELSE IF ~IsPathLike(unwrapped)
        THEN [pc |-> "Failed", path |-> "", error |-> MalformedError]
        ELSE IF ~PathExists(f, unwrapped.path)
        THEN [pc |-> "Failed", path |-> unwrapped.path,
              error |-> OutputMissingError]
        ELSE [pc |-> "Success", path |-> unwrapped.path, error |-> NoError]

NoJob == [input_ext |-> "", to_format |-> "", nt |-> FALSE, sameName |-> FALSE]

\* result, as initialised at the top of convert_file.
NewResult(j) ==
    [output_path |-> "", original_filename |-> "orig",
     output_filename |-> "OUT", input_format |-> j.input_ext,
     output_format |-> j.to_format]

NoResult ==
    [output_path |-> "", original_filename |-> "", output_filename |-> "",
     input_format |-> "", output_format |-> ""]

(***************************************************************************)
(* The job                                                                 *)
(***************************************************************************)

TheChain == Chain(strategy, job.nt)

\* No strategy function is under study on its own.
NoCall == [fn |-> "none"]

NoEffect == [done |-> FALSE]

\* The web application around convert_file is not running.
NoApp == [on |-> FALSE]

Init ==
    /\ pc = "Pending"
    /\ job = NoJob
    /\ strategy = "none"
    /\ pos = 0
    /\ cur = "idle"
    /\ fs = [p \in Paths |-> Missing]
    /\ attempts = <<>>
    /\ result = NoResult
    /\ error = NoError
    /\ toolRuns = 0
    /\ ret = NoneVal
    /\ call = NoCall
    /\ eff = NoEffect
    /\ app = NoApp

Dispatch_NoRaise(ext, fmt, nt, same) ==
    /\ pc = "Pending"
    /\ LET j == [input_ext |-> Lower(ext), to_format |-> fmt,
                 nt |-> nt, sameName |-> same]
           s == Route(j.input_ext, fmt)
       IN  /\ job' = j
           /\ strategy' = s
           /\ result' = NewResult(j)
           /\ IF s = "none"
              THEN /\ pc' = "Failed"
                   /\ error' = OutputMissingError
              ELSE /\ pc' = "Attempting"
                   /\ error' = NoError
    /\ UNCHANGED <<pos, cur, fs, attempts, toolRuns, ret, call, eff, app>>

\* convert_file is called: the extension is taken from input_path and
\* lower-cased, the result record is initialised, the ladder is walked.
Dispatch(ext, fmt, nt, same) ==
    /\ pc = "Pending"
    /\ LET j == [input_ext |-> Lower(ext), to_format |-> fmt,
                 nt |-> nt, sameName |-> same]
           s == Route(j.input_ext, fmt)
       IN  /\ job' = j
           /\ strategy' = s
           /\ result' = NewResult(j)
           /\ IF s = "none"
              THEN /\ pc' = "Failed"
                   /\ error' = ConvertFileTail(StrVal(""), fs).error
              ELSE /\ pc' = "Attempting"
                   /\ error' = NoError
    /\ UNCHANGED <<pos, cur, fs, attempts, toolRuns, ret, call, eff, app>>

\* The state after the technique at the end of att ended with outcome res.
Conclude(res, att) ==
    LET n == Len(att)
        att1 == [att EXCEPT ![n].status = IF res.ok THEN "succeeded" ELSE "failed",
                            ![n].reason = res.reason]
    IN  /\ fs' = res.fs
        /\ attempts' = att1
        /\ cur' = "idle"
        /\ ret' = IF res.v = "return" THEN StrVal(res.path) ELSE ret
        /\ CASE res.v = "return" ->
                  LET tail == ConvertFileTail(StrVal(res.path), res.fs) IN
                  /\ pc' = tail.pc
                  /\ error' = tail.error
                  /\ result' = [result EXCEPT !.output_path = tail.path]
             [] res.v = "next" ->
                  /\ result' = result
                  /\ IF att[n].tech = TheChain[Len(TheChain)]
                     THEN pc' = "Failed" /\ error' = ExhaustedError(strategy)
                     ELSE pc' = pc /\ error' = error
             [] OTHER ->
                  /\ result' = result
                  /\ pc' = "Failed"
                  /\ error' = StrategyError(strategy, <<res.reason>>)

\* The next technique of the chain is entered: its library call is made
\* or its process launched.  A browser candidate is entered only if
\* os.path.exists(chrome_path).
StartTechnique ==
    /\ pc = "Attempting" /\ cur = "idle" /\ pos < Len(TheChain)
    /\ LET t == TheChain[pos + 1] IN
       /\ t.k # "html"
       /\ t.k \in {"lo", "browser"} => toolRuns < MaxToolRuns
       /\ toolRuns' = IF t.k \in {"lo", "browser"} THEN toolRuns + 1 ELSE toolRuns
       /\ attempts' = Append(attempts,
                             [tech |-> t, status |-> "running", reason |-> "none"])
    /\ pos' = pos + 1
    /\ cur' = "running"
    /\ UNCHANGED <<pc, job, strategy, fs, result, error, ret, call, eff, app>>

\* A browser candidate whose path does not exist is passed over.
SkipCandidate ==
    /\ pc = "Attempting" /\ cur = "idle" /\ pos < Len(TheChain)
    /\ TheChain[pos + 1].k = "browser"
    /\ pos' = pos + 1
    /\ UNCHANGED <<pc, job, strategy, cur, fs, attempts, result, error, toolRuns,
                   ret, call, eff, app>>

\* The next office-suite candidate is not installed: subprocess.run raises
\* FileNotFoundError at once, the candidate's handler logs it.
CandidateNotFound ==
    /\ pc = "Attempting" /\ cur = "idle" /\ pos < Len(TheChain)
    /\ TheChain[pos + 1].k = "lo"
    /\ pos' = pos + 1
    /\ Conclude(Run(strategy, TheChain[pos + 1], Exit("notfound", "none", FALSE),
                    fs, job),
                Append(attempts, [tech |-> TheChain[pos + 1],
                                  status |-> "running", reason |-> "none"]))
    /\ UNCHANGED <<job, strategy, toolRuns, call, eff, app>>

\* word_to_pdf reads the document and writes the temporary HTML; an
\* exception here goes to the in-process tier's handler.
PrepareHtml(ok) ==
    /\ pc = "Attempting" /\ cur = "idle" /\ pos < Len(TheChain)
    /\ TheChain[pos + 1].k = "html"
    /\ pos' = pos + 1
    /\ IF ok
       THEN UNCHANGED <<pc, cur, fs, attempts, result, error, ret, call, eff>>
       ELSE /\ Conclude(InProcessHandler(fs, "exception"),
                       Append(attempts, [tech |-> TheChain[pos + 1],
                                         status |-> "running", reason |-> "none"]))
            /\ UNCHANGED <<call, eff>>
    /\ UNCHANGED <<job, strategy, toolRuns, app>>

\* The running technique's library call or process ends with exit o and
\* the technique's code acts on it.
FinishTechnique(o) ==
    /\ pc = "Attempting" /\ cur = "running"
    /\ LET t == TheChain[pos] IN
       /\ o \in Exits(strategy, t)
       /\ Conclude(Run(strategy, t, o, fs, job), attempts)
    /\ UNCHANGED <<job, strategy, pos, toolRuns, call, eff, app>>

\* The native automation call blocks: the automation server shows a modal
\* dialog or stops answering, and the call has no timeout.
NativeHangs ==
    /\ pc = "Attempting" /\ cur = "running"
    /\ TheChain[pos].k = "com"
    /\ cur' = "hung"
    /\ UNCHANGED <<pc, job, strategy, pos, fs, attempts, result, error, toolRuns,
                   ret, call, eff, app>>

AllExits == BlackBoxExits \cup ProcessExits \cup WriterExits
                \cup {Exit("ok", "full", TRUE)}

Next ==
    \/ \E ext \in InputExts, fmt \in ToFormats, nt \in BOOLEAN, same \in BOOLEAN :
          Dispatch(ext, fmt, nt, same)
    \/ StartTechnique
    \/ SkipCandidate
    \/ CandidateNotFound
    \/ \E ok \in BOOLEAN : PrepareHtml(ok)
    \/ \E o \in AllExits : FinishTechnique(o)
    \/ NativeHangs

Spec == Init /\ [][Next]_vars

\* Every step of the job's worker is eventually taken: the interpreter
\* keeps running the call, and every call but native automation returns.
FairSpec ==
    /\ Spec
    /\ WF_vars(StartTechnique \/ SkipCandidate \/ CandidateNotFound)
    /\ WF_vars(\E ok \in BOOLEAN : PrepareHtml(ok))
    /\ WF_vars(\E o \in AllExits : FinishTechnique(o))

TypeOK ==
    /\ pc \in {"Pending", "Attempting", "Returned", "Success", "Failed"}
    /\ cur \in {"idle", "running", "hung"}
    /\ pos \in 0..Len(TheChain)
    /\ toolRuns \in 0..MaxToolRuns
    /\ strategy = Route(job.input_ext, job.to_format)

(***************************************************************************)
(* The result normalizer on every shape of return value                    *)
(*                                                                         *)
(* The strategies of this module return output_path or a path derived from *)
(* it.  process_result and the checks after it in convert_file accept any  *)
(* value, so they are followed here from the moment a strategy has         *)
(* returned a value of any of the shapes they test for.                    *)
(***************************************************************************)

\* Deepest nesting of {"output_path": ...} dicts in a return value.
MaxDepth == 3

Bottoms ==
    {StrVal(p) : p \in {"OUT", "ALT", ""}}
        \cup {BottomVal(b) : b \in {"none", "dict", "emptydict", "other", "zero"}}

RECURSIVE Nested(_, _)
\* val wrapped in k dicts {"output_path": ...}
Nested(val, k) == IF k = 0 THEN val ELSE DictVal(Nested(val, k - 1))

RetValues == {Nested(b, k) : b \in Bottoms, k \in 0..MaxDepth}

\* The strategy of a supported pair has just returned ret from the first
\* technique of its chain; OUT and ALT are missing, empty or written.
InitNorm ==
    /\ pc = "Returned"
    /\ \E ext \in {"docx", "xlsx", "pdf"}, nt \in BOOLEAN :
          /\ job = [input_ext |-> ext,
                    to_format |-> IF ext = "pdf" THEN "jpg" ELSE "pdf",
                    nt |-> nt, sameName |-> FALSE]
          /\ strategy = Route(job.input_ext, job.to_format)
          /\ attempts = <<[tech |-> Chain(strategy, nt)[1],
                           status |-> "succeeded", reason |-> "none"]>>
          /\ toolRuns = IF Chain(strategy, nt)[1].k = "lo" THEN 1 ELSE 0
          /\ \E o \in {"missing", "empty", "full"},
                a \in {"missing", "empty", "full"} :
                fs = [p \in Paths |->
                        IF p = "OUT" /\ o # "missing"
                        THEN [st |-> o, by |-> Chain(strategy, nt)[1]]
                        ELSE IF p = "ALT" /\ a # "missing"
                        THEN [st |-> a, by |-> Chain(strategy, nt)[1]]
                        ELSE Missing]
    /\ pos = 1
    /\ cur = "idle"
    /\ result = NewResult(job)
    /\ error = NoError
    /\ ret \in RetValues
    /\ call = NoCall
    /\ eff = NoEffect
    /\ app = NoApp

\* result["output_path"] = process_result(<strategy>(...)) and the checks
\* that follow it.
NormalizeReturn ==
    /\ pc = "Returned"
    /\ LET tail == ConvertFileTail(ret, fs) IN
       /\ pc' = tail.pc
       /\ error' = tail.error
       /\ result' = [result EXCEPT !.output_path = tail.path]
    /\ UNCHANGED <<job, strategy, pos, cur, fs, attempts, toolRuns, ret, call, eff, app>>

NextNorm == NormalizeReturn

NormSpec == InitNorm /\ [][NextNorm]_vars

(***************************************************************************)
(* pdf_to_images and pdf_to_searchable_pdf in detail                       *)
(*                                                                         *)
(* One call of the strategy is followed with its inputs spelled out in     *)
(* `call`: the page count, quality and image format of pdf_to_images; for  *)
(* pdf_to_searchable_pdf whether the OCR libraries import, whether the     *)
(* OCR binary answers, what the text-layer probe finds and which of the    *)
(* file operations work.  `eff` records what the call did.                 *)
(***************************************************************************)

\* Most pages of a source PDF.
MaxPages == 3

\* quality: 1 = low, 2 = medium, 3 = high.
Qualities == 1..3

\* The DPI of quality 1 in pdf_to_images.
DpiStep == 100

ImageDpi_Fixed(quality) == DpiStep

\* dpi = 100 * quality
ImageDpi(quality) == DpiStep * quality

\* f"page_{i + 1}.{img_format}" for index i of enumerate(images).
PageName(i, img_format) == <<"page_", i + 1, ".", img_format>>

\* The archive's entries in the order zipf.writestr adds them; image is
\* the page image the entry holds (images[k - 1] of the source).
ZipEntries(n, img_format) ==
    [k \in 1..n |-> [name |-> PageName(k - 1, img_format), image |-> k]]

ImageCalls ==
    [fn : {"pdf_to_images"}, pages : 0..MaxPages, quality : Qualities,
     img_format : {"jpg", "png"}, raster : {"ok", "raise"}]

\* lib: the imports of pytesseract, pdf2image, PyPDF2 and PIL succeed;
\* binary: pytesseract.get_tesseract_version() answers; text: what
\* pages[0].extract_text() gives ("unreadable": it raises); ocr: the OCR
\* pipeline runs through, or convert_from_path raises ("raster"), or a
\* later step raises ("raise"); merge: the instructions page can be built
\* and merged; copy: shutil.copy of the source works; layer: the text layer
\* of a page can be made and merged by one of the two methods, or both
\* raise.
SearchableCalls ==
    [fn : {"pdf_to_searchable_pdf"}, lib : BOOLEAN, binary : BOOLEAN,
     text : {"text", "none", "unreadable"}, ocr : {"ok", "raster", "raise"},
     merge : {"ok", "raise"}, copy : {"ok", "raise"},
     layer : {"ok", "raise"}]

Effect(dpi, entries, ocr, content) ==
    [done |-> TRUE, dpi |-> dpi, entries |-> entries, ocr |-> ocr,
     content |-> content]

CopyAsLastResort_Raises(c, t, f, ocrRan) ==
    [res |-> Raise(f, "exception"), ocr |-> ocrRan, content |-> "none"]

\* The outer handler of pdf_to_searchable_pdf (and the handler of a failed
\* merge): copy the source to output_path and return it; if that copy
\* fails too, raise ValueError.
CopyAsLastResort(c, t, f, ocrRan) ==
    IF c.copy = "ok"
    THEN [res |-> Return(Written(f, "OUT", t, "full"), "OUT"),
          ocr |-> ocrRan, content |-> "copy"]
    ELSE [res |-> Raise(f, "exception"), ocr |-> ocrRan, content |-> "none"]

\* Rasterize at 300 DPI, image_to_string per page, merge the page image
\* with its text layer (a page whose text layer cannot be made is added
\* as image only), write output_path.
OcrPipeline(c, t, f) ==
    IF c.ocr = "ok"
    THEN [res |-> Return(Written(f, "OUT", t, "full"), "OUT"),
          ocr |-> TRUE,
          content |-> IF c.layer = "ok" THEN "ocr" ELSE "image only"]
    ELSE CopyAsLastResort(c, t, f, c.ocr = "raise")

\* pdf_to_searchable_pdf, in the order of the code: the imports (on
\* ImportError the instructions page followed by the original is written),
\* the OCR binary's version check, the text-layer probe (a PDF with text
\* is copied; a failing probe or copy is logged and OCR goes on), OCR.
PdfToSearchablePdf(c, t, f) ==
    IF ~c.lib
    THEN IF c.merge = "ok" /\ c.copy = "ok"
         THEN [res |-> Return(Written(f, "OUT", t, "full"), "OUT"),
               ocr |-> FALSE, content |-> "notice+original"]
         ELSE CopyAsLastResort(c, t, f, FALSE)
    ELSE IF ~c.binary THEN CopyAsLastResort(c, t, f, FALSE)
    ELSE IF c.text = "text" /\ c.copy = "ok"
    THEN [res |-> Return(Written(f, "OUT", t, "full"), "OUT"),
          ocr |-> FALSE, content |-> "copy"]
    ELSE OcrPipeline(c, t, f)

\* Largest width and height of an input image, in pixels.
MaxSide == 4

ImageToPdfCalls ==
    [fn : {"image_to_pdf"}, width : 1..MaxSide, height : 1..MaxSide,
     quality : Qualities]

\* int(side * 0.8 * quality) below quality 3, the side itself at quality 3.
Scaled(side, quality) ==
    IF quality < 3 THEN (side * 8 * quality) \div 10 ELSE side

\* Ten times the radius of the Gaussian blur.
BlurRadiusTenths == 5

\* Black pixels put on a page.
NoisePixels == 3000

\* side: the page's width and height in inches; raster: convert_from_path
\* returns the pages or raises.
ScannableCalls ==
    [fn : {"pdf_to_scannable_pdf"}, pages : 0..MaxPages, side : 1..MaxSide,
     quality : Qualities, raster : {"ok", "raise"}]

Degrade_NoiseByArea(quality, width, height) ==
    IF quality < 3
    THEN [blur |-> BlurRadiusTenths, noise |-> width * height]
    ELSE [blur |-> 0, noise |-> 0]

\* What pdf_to_scannable_pdf does to one rasterized page of the given
\* pixel size: below quality 3 blur, contrast and noise, else nothing.
Degrade(quality, width, height) ==
    IF quality < 3
    THEN [blur |-> BlurRadiusTenths, noise |-> NoisePixels]
    ELSE [blur |-> 0, noise |-> 0]

RECURSIVE FirstIn(_, _, _)
\* The first element of seq from position i on that is in set, or "none".
FirstIn(seq, set, i) ==
    IF i > Len(seq) THEN "none"
    ELSE IF seq[i] \in set THEN seq[i]
    ELSE FirstIn(seq, set, i + 1)

\* The encodings txt_to_pdf tries, in this order.
Encodings == <<"utf-8", "gbk", "gb2312", "gb18030">>

\* decodes: the encodings of the list the file's bytes are valid in;
\* chardet: the package is not installed ("missing"), or detect() names an
\* encoding the bytes decode in ("found"), names one they do not decode in
\* ("wrong"), or finds no encoding and answers None ("none"); reportlab,
\* fpdf: the PDF library writes the document or raises.
TxtCalls ==
    [fn : {"txt_to_pdf"}, decodes : SUBSET {"utf-8", "gbk", "gb2312", "gb18030"},
     chardet : {"missing", "found", "wrong", "none"},
     quality : Qualities, reportlab : {"ok", "raise"}, fpdf : {"ok", "raise"}]

\* How txt_to_pdf gets text_content: the first encoding of the list that
\* decodes the file; failing all, chardet's guess (decode(None) raises
\* TypeError, a wrong guess UnicodeDecodeError; only ImportError is caught
\* there), and latin-1 if chardet is not installed.  "raise": the
\* exception leaves txt_to_pdf as ValueError.
ReadText(c) ==
    LET enc == FirstIn(Encodings, c.decodes, 1) IN
    IF enc # "none" THEN enc
    ELSE IF c.chardet = "missing" THEN "latin-1"
    ELSE IF c.chardet = "found" THEN "sniffed"
    ELSE "raise"

\* txt_to_pdf: read the text, then reportlab above quality 1, then FPDF,
\* whose output must exist and be non-empty.
TxtToPdf(c, t, f) ==
    LET branch == ReadText(c) IN
    IF branch = "raise"
    THEN [res |-> Raise(f, "exception"), branch |-> branch, method |-> "none"]
    ELSE IF c.quality > 1 /\ c.reportlab = "ok"
    THEN [res |-> Return(Written(f, "OUT", t, "full"), "OUT"),
          branch |-> branch, method |-> "reportlab"]
    ELSE IF c.fpdf = "ok"
    THEN [res |-> Return(Written(f, "OUT", t, "full"), "OUT"),
          branch |-> branch, method |-> "fpdf"]
    ELSE [res |-> Raise(f, "exception"), branch |-> branch, method |-> "none"]

\* readable: the file can be read as utf-8; lib: the markdown package is
\* installed.
MarkdownCalls ==
    [fn : {"markdown_to_pdf"}, readable : BOOLEAN, lib : BOOLEAN,
     quality : Qualities]

\* markdown_to_pdf: read the file, markdown.markdown(...), wrap the HTML in
\* a styled page, HTML(string=...).write_pdf(output_path).  The module
\* imports markdown only: the name HTML is not defined and the call raises
\* NameError, which leaves the function as ValueError.
MarkdownToPdf(c, t, f) ==
    IF ~c.readable \/ ~c.lib
    THEN [res |-> Raise(f, "exception"), html |-> FALSE]
    ELSE [res |-> Raise(f, "exception"), html |-> TRUE]

\* The strategy calls studied on their own.
FuncCalls ==
    ImageCalls \cup SearchableCalls \cup ImageToPdfCalls \cup ScannableCalls
        \cup TxtCalls \cup MarkdownCalls

\* The input extension and to_format that make convert_file enter the
\* strategy of call c.
FuncJob(c) ==
    [input_ext |-> CASE c.fn = "image_to_pdf" -> "jpg"
                     [] c.fn = "txt_to_pdf" -> "txt"
                     [] c.fn = "markdown_to_pdf" -> "md"
                     [] OTHER -> "pdf",
     to_format |-> CASE c.fn = "pdf_to_images" -> c.img_format
                     [] c.fn = "pdf_to_searchable_pdf" -> "searchable_pdf"
                     [] c.fn = "pdf_to_scannable_pdf" -> "scannable_pdf"
                     [] OTHER -> "pdf",
     nt |-> FALSE, sameName |-> FALSE]

\* convert_file has dispatched the job and entered the strategy; nothing
\* has been written yet.
InitFunc ==
    /\ call \in FuncCalls
    /\ job = FuncJob(call)
    /\ strategy = Route(job.input_ext, job.to_format)
    /\ pc = "Attempting"
    /\ pos = 1
    /\ cur = "running"
    /\ fs = [p \in Paths |-> Missing]
    /\ attempts = <<[tech |-> Tech("lib", 0), status |-> "running",
                     reason |-> "none"]>>
    /\ result = NewResult(job)
    /\ error = NoError
    /\ toolRuns = 0
    /\ ret = NoneVal
    /\ eff = NoEffect
    /\ app = NoApp

\* pdf_to_images runs and convert_file finishes with what it returned.
FinishPdfToImages ==
    /\ pc = "Attempting" /\ cur = "running"
    /\ call.fn = "pdf_to_images"
    /\ LET res == IF call.raster # "ok" THEN Raise(fs, "exception")
                  ELSE PdfToImages(call.pages, call.img_format, TheChain[pos], fs)
       IN  /\ eff' = Effect(ImageDpi(call.quality),
                            IF res.v = "return" /\ res.path = "ALT"
                            THEN ZipEntries(call.pages, call.img_format)
                            ELSE <<>>,
                            FALSE,
                            IF res.v # "return" THEN "none"
                            ELSE IF res.path = "ALT" THEN "archive"
                            ELSE "image")
           /\ Conclude(res, attempts)
    /\ UNCHANGED <<job, strategy, pos, toolRuns, call, app>>

\* pdf_to_searchable_pdf runs and convert_file finishes with what it
\* returned.
FinishPdfToSearchablePdf ==
    /\ pc = "Attempting" /\ cur = "running"
    /\ call.fn = "pdf_to_searchable_pdf"
    /\ LET r == PdfToSearchablePdf(call, TheChain[pos], fs)
       IN  /\ eff' = Effect(0, <<>>, r.ocr, r.content)
           /\ Conclude(r.res, attempts)
    /\ UNCHANGED <<job, strategy, pos, toolRuns, call, app>>

\* image_to_pdf runs: the image is resized below quality 3 (Image.resize
\* raises on an empty size) and saved as PDF at output_path.
FinishImageToPdf ==
    /\ pc = "Attempting" /\ cur = "running"
    /\ call.fn = "image_to_pdf"
    /\ LET new_width == Scaled(call.width, call.quality)
           new_height == Scaled(call.height, call.quality)
           res == IF new_width = 0 \/ new_height = 0
                  THEN Raise(fs, "exception")
                  ELSE Return(Written(fs, "OUT", TheChain[pos], "full"), "OUT")
       IN  /\ eff' = [done |-> TRUE, width |-> new_width, height |-> new_height,
                      resolution |-> 100 * call.quality]
           /\ Conclude(res, attempts)
    /\ UNCHANGED <<job, strategy, pos, toolRuns, call, app>>

\* pdf_to_scannable_pdf runs: the pages are rasterized at 150 * quality
\* DPI, each page is processed, the pages are saved as one PDF at
\* output_path (processed_images[0] raises without pages).
FinishPdfToScannablePdf ==
    /\ pc = "Attempting" /\ cur = "running"
    /\ call.fn = "pdf_to_scannable_pdf"
    /\ LET dpi == 150 * call.quality
           processed == IF call.raster = "ok"
                        THEN [k \in 1..call.pages |->
                                Degrade(call.quality, call.side * dpi,
                                        call.side * dpi)]
                        ELSE <<>>
           res == IF call.raster # "ok" \/ call.pages = 0
                  THEN Raise(fs, "exception")
                  ELSE Return(Written(fs, "OUT", TheChain[pos], "full"), "OUT")
       IN  /\ eff' = [done |-> TRUE, dpi |-> dpi, processed |-> processed]
           /\ Conclude(res, attempts)
    /\ UNCHANGED <<job, strategy, pos, toolRuns, call, app>>

\* txt_to_pdf runs and convert_file finishes with what it returned.
ConvertTxtToPdf ==
    /\ pc = "Attempting" /\ cur = "running"
    /\ call.fn = "txt_to_pdf" /\ "decodes" \in DOMAIN call
    /\ LET r == TxtToPdf(call, TheChain[pos], fs)
       IN  /\ eff' = [done |-> TRUE, branch |-> r.branch, method |-> r.method]
           /\ Conclude(r.res, attempts)
    /\ UNCHANGED <<job, strategy, pos, toolRuns, call, app>>

\* markdown_to_pdf runs and convert_file finishes with what it returned.
ConvertMarkdownToPdf ==
    /\ pc = "Attempting" /\ cur = "running"
    /\ call.fn = "markdown_to_pdf"
    /\ LET r == MarkdownToPdf(call, TheChain[pos], fs)
       IN  /\ eff' = [done |-> TRUE, html |-> r.html]
           /\ Conclude(r.res, attempts)
    /\ UNCHANGED <<job, strategy, pos, toolRuns, call, app>>

NextFunc ==
    \/ FinishPdfToImages
    \/ FinishPdfToSearchablePdf
    \/ FinishImageToPdf
    \/ FinishPdfToScannablePdf
    \/ ConvertTxtToPdf
    \/ ConvertMarkdownToPdf

FuncSpec == InitFunc /\ [][NextFunc]_vars

(***************************************************************************)
(* The web application: /api/convert requests, metadata, retention sweep   *)
(*                                                                         *)
(* Each request is served by its own thread; the threads interleave at the *)
(* file operations.  A request's file_id is a fresh uuid4, modelled by the *)
(* request's index.  Every upload is a PDF named report.pdf.  convert_file *)
(* is seen from outside: it succeeds or raises, and writes the artifact    *)
(* and the temporary files of its strategy.  Time is counted in hours.     *)
(***************************************************************************)

\* Requests served in one run of the application.
NumJobs == 2

Jobs == 1..NumJobs

\* Last hour of the clock.
MaxNow == 36

\* Hours that pass in one step of the clock.
TickHours == 12

\* max_age_hours of the three cleanup_old_files calls of /api/convert.
RetentionHours == 24

Folders == {"uploads", "results", "metadata"}

\* The top-level entries of the three folders: uploads/<file_id>/,
\* results/<file_id>/ and metadata/<file_id>.json.
Entries == Folders \X Jobs

Absent == [kind |-> "absent", mtime |-> 0]

\* A directory entry of kind "file", "dir" or "other" (neither of them)
\* with its modification time.
Entry(kind, mtime) == [kind |-> kind, mtime |-> mtime]

CleanupOldFiles_OlderOrEqual(listing, now, max_age_hours, stuck) ==
    LET threshold == now - max_age_hours IN
    [e \in DOMAIN listing |->
        IF /\ listing[e].kind \in {"file", "dir"}
           /\ listing[e].mtime <= threshold
           /\ e \notin stuck
        THEN Absent
        ELSE listing[e]]

\* cleanup_old_files(directory, max_age_hours) on the listing of the
\* directory at time now: an entry older than the threshold is removed if
\* it is a file (os.remove) or a directory (shutil.rmtree); stuck are the
\* entries whose removal raises, which is logged and leaves them in place.
CleanupOldFiles(listing, now, max_age_hours, stuck) ==
    LET threshold == now - max_age_hours IN
    [e \in DOMAIN listing |->
        IF /\ listing[e].kind \in {"file", "dir"}
           /\ listing[e].mtime < threshold
           /\ e \notin stuck
        THEN Absent
        ELSE listing[e]]

TargetExt_NoAlias(to_format) == to_format

\* target_ext of /api/convert.
TargetExt(to_format) ==
    IF to_format \in {"scannable_pdf", "scanned_pdf", "searchable_pdf"}
    THEN "pdf"
    ELSE to_format

\* response_format of /api/convert.
ResponseFormat(to_format) ==
    IF to_format \in {"scannable_pdf", "scanned_pdf", "searchable_pdf"}
    THEN "pdf"
    ELSE to_format

\* The to_format values the requests ask for.
AppFormats ==
    {"pptx", "png", "scannable_pdf", "scanned_pdf", "searchable_pdf"}

\* Names tempfile.mktemp can return.
TempNames == {"tmpa", "tmpb"}

NoRecord == [file_id |-> 0]

\* metadata as saved before the conversion.
FirstMetadata(j, to_format) ==
    [file_id |-> j, original_filename |-> <<"report", "pdf">>,
     to_format |-> to_format]

\* metadata as saved after the conversion.
FinalMetadata(j, to_format) ==
    [file_id |-> j, original_filename |-> <<"report", "pdf">>,
     to_format |-> to_format,
     output_filename |-> <<"report", TargetExt(to_format)>>]

\* returned: the path convert_file returned, "OUT" for output_path and
\* "ALT" for another path in the result directory.
NoRequest ==
    [pc |-> "idle", to_format |-> "", strategy |-> "none",
     output_filename |-> <<>>, response |-> "none", returned |-> "none"]

\* A path: a root folder (the three folders of the application or the
\* system's temporary directory "tmp"), the file_id subdirectory (0: none)
\* and the file name.
PathIn(root, dir, name) == [root |-> root, dir |-> dir, name |-> name]

\* The temporary files a strategy writes outside dirname(output_path):
\* pdf_to_pptx saves every page image to tempfile.mktemp(suffix='.png').
SystemTempFiles(s, name) ==
    IF s = "pdf_to_pptx" THEN {PathIn("tmp", 0, <<name, "png">>)} ELSE {}

\* The variables of the conversion job, which the application's steps
\* leave alone.
jobVars ==
    <<pc, job, strategy, pos, cur, fs, attempts, result, error, toolRuns,
      ret, call, eff>>

InitApp ==
    /\ pc = "Pending"
    /\ job = NoJob
    /\ strategy = "none"
    /\ pos = 0
    /\ cur = "idle"
    /\ fs = [p \in Paths |-> Missing]
    /\ attempts = <<>>
    /\ result = NoResult
    /\ error = NoError
    /\ toolRuns = 0
    /\ ret = NoneVal
    /\ call = NoCall
    /\ eff = NoEffect
    /\ app = [on |-> TRUE,
              now |-> 0,
              top |-> [e \in Entries |-> Absent],
              meta |-> [j \in Jobs |-> [st |-> "absent", rec |-> NoRecord]],
              req |-> [j \in Jobs |-> NoRequest],
              wrote |-> [j \in Jobs |-> {}],
              art |-> [j \in Jobs |-> "none"],
              read |-> [st |-> "unread", id |-> 0, rec |-> NoRecord,
                        answer |-> "none"]]

Reject_SavesMetadata(j) ==
    /\ app.on
    /\ app.req[j].pc = "idle"
    /\ app' = [app EXCEPT
                 !.req[j] = [NoRequest EXCEPT !.pc = "done",
                                              !.response = "rejected"],
                 !.meta[j] = [st |-> "empty", rec |-> NoRecord],
                 !.top[<<"metadata", j>>] = Entry("file", app.now)]
    /\ UNCHANGED jobVars

\* A request without file part, with an empty file name or with an
\* extension that is not allowed is answered 400 before anything is done.
Reject(j) ==
    /\ app.on
    /\ app.req[j].pc = "idle"
    /\ app' = [app EXCEPT
                 !.req[j] = [NoRequest EXCEPT !.pc = "done",
                                              !.response = "rejected"]]
    /\ UNCHANGED jobVars

\* A request arrives; save_metadata opens metadata/<file_id>.json for
\* writing, which creates the file empty.
Receive(j, to_format) ==
    /\ app.req[j].pc = "idle"
    /\ app' = [app EXCEPT
                 !.req[j] = [NoRequest EXCEPT !.pc = "meta1",
                                              !.to_format = to_format],
                 !.meta[j] = [st |-> "empty", rec |-> NoRecord],
                 !.top[<<"metadata", j>>] = Entry("file", app.now)]
    /\ UNCHANGED jobVars

\* save_metadata opens the existing metadata file for writing after the
\* conversion: the file is truncated.
TruncateMetadata(j) ==
    /\ app.req[j].pc = "meta2"
    /\ app' = [app EXCEPT
                 !.req[j].pc = "meta2w",
                 !.meta[j] = [st |-> "empty", rec |-> NoRecord],
                 !.top[<<"metadata", j>>] = Entry("file", app.now)]
    /\ UNCHANGED jobVars

\* json.dump writes the record and the file is closed.  A file that was
\* removed while open takes the record with it.
WriteMetadata(j) ==
    /\ app.req[j].pc \in {"meta1", "meta2w"}
    /\ LET first == app.req[j].pc = "meta1"
           rec == IF first THEN FirstMetadata(j, app.req[j].to_format)
                  ELSE FinalMetadata(j, app.req[j].to_format)
       IN  app' = [app EXCEPT
                     !.req[j].pc = IF first THEN "upload" ELSE "done",
                     !.req[j].response =
                         IF first THEN "none"
                         ELSE ResponseFormat(app.req[j].to_format),
                     !.meta[j] =
                         IF app.top[<<"metadata", j>>].kind = "absent"
                         THEN [st |-> "absent", rec |-> NoRecord]
                         ELSE [st |-> "written", rec |-> rec]]
    /\ UNCHANGED jobVars

\* os.makedirs(uploads/<file_id>) and file.save(upload_path).
SaveUpload(j) ==
    /\ app.req[j].pc = "upload"
    /\ app' = [app EXCEPT
                 !.req[j].pc = "sweep",
                 !.top[<<"uploads", j>>] = Entry("dir", app.now),
                 !.wrote[j] = @ \cup {PathIn("uploads", j, <<"report", "pdf">>)}]
    /\ UNCHANGED jobVars

\* The three cleanup_old_files calls at the head of the conversion.
RunCleanup(j) ==
    /\ app.req[j].pc = "sweep"
    /\ LET swept(folder) ==
               CleanupOldFiles([k \in Jobs |-> app.top[<<folder, k>>]],
                               app.now, RetentionHours, {})
           top1 == [e \in Entries |-> swept(e[1])[e[2]]]
       IN  app' = [app EXCEPT
                     !.req[j].pc = "convert",
                     !.top = top1,
                     !.art = [k \in Jobs |->
                                IF top1[<<"results", k>>].kind = "absent"
                                THEN "none"
                                ELSE app.art[k]],
                     !.meta = [k \in Jobs |->
                                 IF top1[<<"metadata", k>>].kind = "absent"
                                 THEN [st |-> "absent", rec |-> NoRecord]
                                 ELSE app.meta[k]]]
    /\ UNCHANGED jobVars

\* os.makedirs(results/<file_id>), the output name is built and
\* converters.convert_file is called.
StartConvert(j) ==
    /\ app.req[j].pc = "convert"
    /\ app' = [app EXCEPT
                 !.req[j].pc = "converting",
                 !.req[j].strategy = Route("pdf", app.req[j].to_format),
                 !.req[j].output_filename =
                     <<"report", TargetExt(app.req[j].to_format)>>,
                 !.top[<<"results", j>>] = Entry("dir", app.now)]
    /\ UNCHANGED jobVars

FinishConvert_NoCopy(j, ok, tmp, multi) ==
    /\ app.req[j].pc = "converting"
    /\ ok => app.top[<<"results", j>>].kind = "dir"
    /\ multi => ok /\ app.req[j].strategy = "pdf_to_images"
    /\ app.req[j].strategy # "pdf_to_pptx" => tmp = "tmpa"
    /\ app' = [app EXCEPT
                 !.req[j].pc = IF ok THEN "meta2" ELSE "done",
                 !.req[j].response = IF ok THEN "none" ELSE "error",
                 !.req[j].returned =
                     IF ~ok THEN "none" ELSE IF multi THEN "ALT" ELSE "OUT",
                 !.top[<<"results", j>>] =
                     IF ok THEN Entry("dir", app.now) ELSE @,
                 !.art[j] = IF ok /\ ~multi THEN "artifact" ELSE @]
    /\ UNCHANGED jobVars

\* converters.convert_file returns (ok) or raises.  On success the
\* strategy has written its artifact at output_path or, for a PNG job of
\* several pages (multi), an archive at another path of the result
\* directory, which the handler copies to output_path; the handler goes
\* on to the second save_metadata.  On failure the handler answers 500.
\* app.art is what lies at output_path.
FinishConvert(j, ok, tmp, multi) ==
    /\ app.req[j].pc = "converting"
    /\ ok => app.top[<<"results", j>>].kind = "dir"
    /\ multi => ok /\ app.req[j].strategy = "pdf_to_images"
    /\ app.req[j].strategy # "pdf_to_pptx" => tmp = "tmpa"
    /\ LET temps == SystemTempFiles(app.req[j].strategy, tmp)
           artifact == PathIn("results", j, app.req[j].output_filename)
           archive == PathIn("results", j, <<"report", "zip">>)
       IN  app' = [app EXCEPT
                     !.req[j].pc = IF ok THEN "meta2" ELSE "done",
                     !.req[j].response = IF ok THEN "none" ELSE "error",
                     !.req[j].returned =
                         IF ~ok THEN "none" ELSE IF multi THEN "ALT" ELSE "OUT",
                     !.top[<<"results", j>>] =
                         IF ok THEN Entry("dir", app.now) ELSE @,
                     !.art[j] = IF ~ok THEN @
                                ELSE IF multi THEN "archive" ELSE "artifact",
                     !.wrote[j] = @ \cup temps
                                    \cup (IF ok THEN {artifact} ELSE {})
                                    \cup (IF multi THEN {archive} ELSE {})]
    /\ UNCHANGED jobVars

\* What get_metadata(file_id) returns: None if the file does not exist,
\* else json.load of what the file holds at that moment ("partial": the
\* text is not a whole record and json.load raises).
GetMetadata(j) ==
    CASE app.meta[j].st = "absent" -> [st |-> "none", id |-> j, rec |-> NoRecord]
      [] app.meta[j].st = "empty" -> [st |-> "partial", id |-> j, rec |-> NoRecord]
      [] OTHER -> [st |-> "record", id |-> j, rec |-> app.meta[j].rec]

DownloadFile_ServesAnyway(j) ==
    /\ app.on
    /\ LET r == GetMetadata(j)
       IN  app' = [app EXCEPT
                     !.read = [st |-> r.st, id |-> r.id, rec |-> r.rec,
                               answer |-> IF r.st = "record" THEN "file"
                                          ELSE "500"]]
    /\ UNCHANGED jobVars

\* /api/download/<file_id>: 404 without metadata, 500 if reading it raises
\* or the record has no output_filename, 404 if the file is not in the
\* result directory, else the file is sent.
DownloadFile(j) ==
    /\ app.on
    /\ LET r == GetMetadata(j)
           answer == CASE r.st = "none" -> "404 no metadata"
                       [] r.st = "partial" -> "500"
                       [] "output_filename" \notin DOMAIN r.rec -> "500"
                       [] app.art[j] = "none" -> "404 file missing"
                       [] OTHER -> "file"
       IN  app' = [app EXCEPT
                     !.read = [st |-> r.st, id |-> r.id, rec |-> r.rec,
                               answer |-> answer]]
    /\ UNCHANGED jobVars

\* Hours pass while every request thread is idle, answered, or inside the
\* converter.
Tick ==
    /\ app.on
    /\ app.now + TickHours <= MaxNow
    /\ \A j \in Jobs : app.req[j].pc \in {"idle", "converting", "done"}
    /\ app' = [app EXCEPT !.now = @ + TickHours]
    /\ UNCHANGED jobVars

\* A moment passes between the end of a conversion and the second
\* save_metadata of its request.
Moment ==
    /\ app.on
    /\ app.now % TickHours = 0
    /\ app.now + 1 <= MaxNow
    /\ \E j \in Jobs : app.req[j].pc = "meta2"
    /\ app' = [app EXCEPT !.now = @ + 1]
    /\ UNCHANGED jobVars

NextApp ==
    \/ \E j \in Jobs : Reject(j)
    \/ \E j \in Jobs, to_format \in AppFormats : Receive(j, to_format)
    \/ \E j \in Jobs : TruncateMetadata(j)
    \/ \E j \in Jobs : WriteMetadata(j)
    \/ \E j \in Jobs : SaveUpload(j)
    \/ \E j \in Jobs : RunCleanup(j)
    \/ \E j \in Jobs : StartConvert(j)
    \/ \E j \in Jobs, ok \in BOOLEAN, tmp \in TempNames, multi \in BOOLEAN :
           FinishConvert(j, ok, tmp, multi)
    \/ \E j \in Jobs : DownloadFile(j)
    \/ Tick
    \/ Moment

AppSpec == InitApp /\ [][NextApp]_vars

(***************************************************************************)
(* cleanup_old_files on its own                                            *)
(***************************************************************************)

\* Latest modification time of an entry, and the time of the call.
MaxMtime == 3

\* The names of the entries in the swept directory.
SweepNames == {"a", "b"}

\* The calls: a directory listing of files, directories and entries that
\* are neither, a retention between 0 and 2 hours, and the set of entries
\* whose removal raises.
SweepCalls ==
    [fn : {"cleanup_old_files"},
     listing : [SweepNames -> [kind : {"file", "dir", "other"},
                               mtime : 0..MaxMtime]],
     now : {MaxMtime},
     max_age_hours : 0..2,
     stuck : SUBSET SweepNames]

InitSweep ==
    /\ call \in SweepCalls
    /\ pc = "Pending"
    /\ job = NoJob
    /\ strategy = "none"
    /\ pos = 0
    /\ cur = "idle"
    /\ fs = [p \in Paths |-> Missing]
    /\ attempts = <<>>
    /\ result = NoResult
    /\ error = NoError
    /\ toolRuns = 0
    /\ ret = NoneVal
    /\ eff = NoEffect
    /\ app = NoApp

\* cleanup_old_files runs; eff holds the directory listing it leaves.
FinishCleanupOldFiles ==
    /\ call.fn = "cleanup_old_files"
    /\ ~eff.done
    /\ eff' = [done |-> TRUE,
               listing |-> CleanupOldFiles(call.listing, call.now,
                                           call.max_age_hours, call.stuck)]
    /\ UNCHANGED <<pc, job, strategy, pos, cur, fs, attempts, result, error,
                   toolRuns, ret, call, app>>

NextSweep == FinishCleanupOldFiles

SweepSpec == InitSweep /\ [][NextSweep]_vars

(***************************************************************************)
(* txt_to_pdf jobs in one process: the font registry of reportlab          *)
(*                                                                         *)
(* pdfmetrics._fonts belongs to the process and outlives every job.  The   *)
(* font files of the machine are the environment and can come and go       *)
(* between jobs.  The platform is Windows.                                 *)
(***************************************************************************)

\* Jobs run in one process.
MaxFontJobs == 2

\* font_paths on Windows, by the name each path is registered under.
FontPaths == <<"SimHei", "SimSun", "MicrosoftYaHei">>

\* The names looked up in pdfmetrics._fonts, in this order.
FontNames == <<"SimHei", "SimSun", "MicrosoftYaHei", "NotoSans", "SystemFont">>

\* The registration loop: the first font file that exists and registers
\* is added to the registry and the loop breaks; files is the set of fonts
\* whose file exists and can be registered.
RegisterFonts(fonts, files) ==
    LET name == FirstIn(FontPaths, files, 1) IN
    IF name = "none" THEN fonts ELSE fonts \cup {name}

\* font_name of txt_to_pdf after its registration loop, taken from the
\* registry of the process; "Normal" is the default style without a font.
ChooseFont(fonts, files) ==
    LET name == FirstIn(FontNames, RegisterFonts(fonts, files), 1) IN
    IF name = "none" THEN "Normal" ELSE name

InitFont ==
    /\ call = NoCall
    /\ eff = NoEffect
    /\ app = [on |-> FALSE, fonts |-> {}, files |-> {}, jobs |-> 0]
    /\ pc = "Pending"
    /\ job = NoJob
    /\ strategy = "none"
    /\ pos = 0
    /\ cur = "idle"
    /\ fs = [p \in Paths |-> Missing]
    /\ attempts = <<>>
    /\ result = NoResult
    /\ error = NoError
    /\ toolRuns = 0
    /\ ret = NoneVal

\* Font files are installed, removed or become unreadable while no job is
\* past its registration loop.
FontFilesChange(files) ==
    /\ ~app.on /\ "files" \in DOMAIN app
    /\ ~eff.done
    /\ files # app.files
    /\ app' = [app EXCEPT !.files = files]
    /\ UNCHANGED <<pc, job, strategy, pos, cur, fs, attempts, result, error,
                   toolRuns, ret, call, eff>>

\* The next txt -> pdf job of the process enters txt_to_pdf.
StartTxtToPdf(quality) ==
    /\ ~app.on /\ "jobs" \in DOMAIN app
    /\ call = NoCall \/ eff.done
    /\ app.jobs < MaxFontJobs
    /\ call' = [fn |-> "txt_to_pdf", quality |-> quality]
    /\ eff' = NoEffect
    /\ app' = [app EXCEPT !.jobs = @ + 1]
    /\ UNCHANGED <<pc, job, strategy, pos, cur, fs, attempts, result, error,
                   toolRuns, ret>>

\* txt_to_pdf runs: with quality > 1 the reportlab method registers a font,
\* chooses the font of the text and builds the document (built); if it
\* raises, or with quality 1, the FPDF method writes the document.
FinishTxtToPdf(built) ==
    /\ call.fn = "txt_to_pdf"
    /\ ~eff.done
    /\ IF call.quality > 1
       THEN /\ app' = [app EXCEPT !.fonts = RegisterFonts(app.fonts, app.files)]
            /\ eff' = [done |-> TRUE,
                       method |-> IF built THEN "reportlab" ELSE "fpdf",
                       font |-> IF built THEN ChooseFont(app.fonts, app.files)
                                ELSE "none"]
       ELSE /\ app' = app
            /\ eff' = [done |-> TRUE, method |-> "fpdf", font |-> "none"]
    /\ UNCHANGED <<pc, job, strategy, pos, cur, fs, attempts, result, error,
                   toolRuns, ret, call>>

NextFont ==
    \/ \E files \in SUBSET {FontPaths[i] : i \in 1..Len(FontPaths)} :
           FontFilesChange(files)
    \/ \E quality \in Qualities : StartTxtToPdf(quality)
    \/ \E built \in BOOLEAN : FinishTxtToPdf(built)

FontSpec == InitFont /\ [][NextFont]_vars

(***************************************************************************)
(* The same conversion run twice                                           *)
(*                                                                         *)
(* convert_file is called, succeeds, and is called again with the same     *)
(* arguments; the files of the first run are still there.  The machine     *)
(* does not change between the runs: every technique the first run went    *)
(* through meets the same exit in the second run (call.seen).  Techniques  *)
(* the first run never reached are free.  No call hangs.                   *)
(***************************************************************************)

\* A browser candidate that is not installed, as an exit.
SkipExit == Exit("skip", "none", FALSE)

\* An office-suite candidate that is not installed, as an exit.
NotFoundExit == Exit("notfound", "none", FALSE)

\* The exit of the HTML preparation of word_to_pdf.
HtmlExit(ok) == Exit(IF ok THEN "ok" ELSE "raise", "none", FALSE)

\* Position p of the chain may meet exit x: in the first run always, in
\* the second run if the first run met x there or never reached p.
Replays(p, x) ==
    IF call.run = 1 \/ p > Len(call.seen) THEN TRUE ELSE call.seen[p] = x

\* The first run notes the exit it met.
Record(x) ==
    call' = IF call.run = 1 THEN [call EXCEPT !.seen = Append(@, x)] ELSE call

InitRerun ==
    /\ call = [fn |-> "rerun", run |-> 1, seen |-> <<>>, first |-> Missing]
    /\ pc = "Pending"
    /\ job = NoJob
    /\ strategy = "none"
    /\ pos = 0
    /\ cur = "idle"
    /\ fs = [p \in Paths |-> Missing]
    /\ attempts = <<>>
    /\ result = NoResult
    /\ error = NoError
    /\ toolRuns = 0
    /\ ret = NoneVal
    /\ eff = NoEffect
    /\ app = NoApp

RerunStart ==
    /\ call.fn = "rerun"
    /\ pos < Len(TheChain)
    /\ IF call.run = 1 \/ pos + 1 > Len(call.seen) THEN TRUE
       ELSE call.seen[pos + 1].r \notin {"skip", "notfound"}
    /\ StartTechnique

RerunSkip ==
    /\ call.fn = "rerun"
    /\ pc = "Attempting" /\ cur = "idle" /\ pos < Len(TheChain)
    /\ TheChain[pos + 1].k = "browser"
    /\ Replays(pos + 1, SkipExit)
    /\ pos' = pos + 1
    /\ Record(SkipExit)
    /\ UNCHANGED <<pc, job, strategy, cur, fs, attempts, result, error, toolRuns,
                   ret, eff, app>>

RerunNotFound ==
    /\ call.fn = "rerun"
    /\ pc = "Attempting" /\ cur = "idle" /\ pos < Len(TheChain)
    /\ TheChain[pos + 1].k = "lo"
    /\ Replays(pos + 1, NotFoundExit)
    /\ pos' = pos + 1
    /\ Conclude(Run(strategy, TheChain[pos + 1], NotFoundExit, fs, job),
                Append(attempts, [tech |-> TheChain[pos + 1],
                                  status |-> "running", reason |-> "none"]))
    /\ Record(NotFoundExit)
    /\ UNCHANGED <<job, strategy, toolRuns, eff, app>>

RerunPrepareHtml(ok) ==
    /\ call.fn = "rerun"
    /\ pc = "Attempting" /\ cur = "idle" /\ pos < Len(TheChain)
    /\ TheChain[pos + 1].k = "html"
    /\ Replays(pos + 1, HtmlExit(ok))
    /\ pos' = pos + 1
    /\ IF ok
       THEN UNCHANGED <<pc, cur, fs, attempts, result, error, ret>>
       ELSE Conclude(InProcessHandler(fs, "exception"),
                     Append(attempts, [tech |-> TheChain[pos + 1],
                                       status |-> "running", reason |-> "none"]))
    /\ Record(HtmlExit(ok))
    /\ UNCHANGED <<job, strategy, toolRuns, eff, app>>

RerunFinish(o) ==
    /\ call.fn = "rerun"
    /\ pc = "Attempting" /\ cur = "running"
    /\ o \in Exits(strategy, TheChain[pos])
    /\ Replays(pos, o)
    /\ Conclude(Run(strategy, TheChain[pos], o, fs, job), attempts)
    /\ Record(o)
    /\ UNCHANGED <<job, strategy, pos, toolRuns, eff, app>>

\* convert_file is called again with the same arguments; call.first keeps
\* the artifact of the first run as the second run finds it.
SecondRun ==
    /\ call.fn = "rerun" /\ call.run = 1
    /\ pc = "Success"
    /\ pc' = "Attempting"
    /\ pos' = 0
    /\ cur' = "idle"
    /\ attempts' = <<>>
    /\ result' = NewResult(job)
    /\ error' = NoError
    /\ toolRuns' = 0
    /\ ret' = NoneVal
    /\ call' = [call EXCEPT !.run = 2,
                            !.first = IF result.output_path \in Paths
                                      THEN fs[result.output_path]
                                      ELSE Missing]
    /\ UNCHANGED <<job, strategy, fs, eff, app>>

NextRerun ==
    \/ \E ext \in InputExts, fmt \in ToFormats, nt \in BOOLEAN, same \in BOOLEAN :
          Dispatch(ext, fmt, nt, same)
    \/ RerunStart
    \/ RerunSkip
    \/ RerunNotFound
    \/ \E ok \in BOOLEAN : RerunPrepareHtml(ok)
    \/ \E o \in AllExits : RerunFinish(o)
    \/ SecondRun

RerunSpec == InitRerun /\ [][NextRerun]_vars

(***************************************************************************)
(* Properties                                                              *)
(***************************************************************************)

Last(q) == q[Len(q)]

\* Priority tier of a technique: native automation, headless office suite,
\* in-process rendering.
Tier(t) ==
    CASE t.k = "com" -> 1
      [] t.k = "lo" -> 2
      [] OTHER -> 3

\* C1: convert_file selects a strategy exactly for the pairs of the
\* supported table (pdf -> docx, xlsx, pptx, jpg, png, scannable_pdf,
\* scanned_pdf, searchable_pdf, dwg, dxf, cad; jpg, jpeg, png, doc, docx,
\* xls, xlsx, ppt, pptx, txt, md -> pdf); every other pair, pdf -> pdf
\* included, fails with the not-supported error.
C1_RouteMatchesSupportedTable ==
    pc # "Pending" =>
        LET supported == job.to_format \in SupportedFormats(job.input_ext) IN
        /\ supported <=> strategy # "none"
        /\ ~supported <=> error.kind = "NotSupported"
        /\ ~supported => pc = "Failed" /\ attempts = <<>>

C1_Witness ==
    /\ pc = "Failed"
    /\ job.input_ext = "pdf" /\ job.to_format = "pdf"
    /\ error.kind = "NotSupported"

\* C2: whenever convert_file returns a result, the file at
\* result.output_path exists and is not empty.
C2_ResultExistsNonEmpty ==
    pc = "Success" =>
        /\ Exists(fs[result.output_path])
        /\ NonEmpty(fs[result.output_path])

\* C3: in the office -> PDF chains the techniques are attempted one at a
\* time in priority order (native automation, the office-suite candidates
\* in list order, in-process rendering); a technique starts only after all
\* earlier attempts failed, none is attempted twice, and nothing is started
\* after a success.
C3_ChainOrder ==
    strategy \in OfficeStrategies =>
        /\ cur # "idle" => attempts # <<>> /\ Last(attempts).status = "running"
        /\ \A i \in 1..Len(attempts) :
              /\ i < Len(attempts) => attempts[i].status = "failed"
              /\ attempts[i].status = "running" => pc = "Attempting" /\ cur # "idle"
              /\ attempts[i].status = "succeeded" => pc # "Attempting"
              /\ attempts[i].tech.k = "com" => i = 1 /\ job.nt
              /\ attempts[i].tech.k = "lo" =>
                    /\ attempts[i].tech.i = 1 =>
                          i = 1 \/ attempts[i - 1].tech.k = "com"
                    /\ attempts[i].tech.i > 1 =>
                          i > 1 /\ attempts[i - 1].tech = Tech("lo", attempts[i].tech.i - 1)
              /\ Tier(attempts[i].tech) = 3 =>
                    \E n \in 1..(i - 1) :
                        attempts[n].tech = Tech("lo", NumLibreOfficePaths)
              /\ \A n \in 1..Len(attempts) :
                    /\ n < i => Tier(attempts[n].tech) <= Tier(attempts[i].tech)
                    /\ n # i => attempts[n].tech # attempts[i].tech

C3_Witness ==
    /\ strategy \in OfficeStrategies
    /\ pc = "Success"
    /\ Len(attempts) >= 3
    /\ attempts[1].tech.k = "com" /\ attempts[1].status = "failed"
    /\ Last(attempts).tech.k = "lo" /\ Last(attempts).status = "succeeded"

\* C4: when every technique of a chain failed, the error raised to the
\* caller carries one failure reason per attempted technique, in attempt
\* order.
C4_ErrorCarriesEveryReason ==
    (pc = "Failed" /\ error.kind = "StrategyFailed") =>
        error.reasons = [i \in 1..Len(attempts) |-> attempts[i].reason]

\* C5: when an earlier technique failed and a later one succeeded, the
\* result names the technique that succeeded and records the earlier
\* failure reasons.
C5_ResultNamesTechnique ==
    (pc = "Success" /\ Len(attempts) >= 2 /\ Last(attempts).status = "succeeded") =>
        /\ result.output_path = "OUT"
        /\ "technique_used" \in DOMAIN result
        /\ "warnings" \in DOMAIN result
        /\ result.technique_used = Last(attempts).tech
        /\ result.warnings =
              [i \in 1..(Len(attempts) - 1) |-> attempts[i].reason]

\* C6: a technique whose call returned without an exception and left its
\* output missing or zero-length counts as failed, and that output is not
\* the job's artifact.
C6_MissingOrEmptyOutputFails ==
    \A i \in 1..Len(attempts) :
        attempts[i].status = "succeeded" =>
            /\ pc = "Success"
            /\ fs[result.output_path].st \notin {"missing", "empty"}

\* C7: the artifact of a successful job was written by the technique that
\* succeeded; a file an earlier, failed technique left behind is never
\* returned.
C7_ArtifactFromSucceedingTechnique ==
    pc = "Success" =>
        /\ Last(attempts).status = "succeeded"
        /\ fs[result.output_path].by = Last(attempts).tech

\* C8: an exception raised inside a technique never leaves the strategy
\* unhandled; convert_file fails only with the not-supported error or with
\* the strategy's chain-exhaustion error.
C8_OnlyTwoErrors ==
    /\ error.kind \in {"none", "NotSupported", "StrategyFailed"}
    /\ pc = "Failed" <=> error.kind # "none"
    /\ error.kind = "StrategyFailed" =>
          /\ error.by = strategy
          /\ Last(attempts).status = "failed"

C8_Witness ==
    /\ pc = "Failed"
    /\ error.kind = "StrategyFailed"
    /\ \E i \in 1..Len(attempts) :
          i < Len(attempts) /\ attempts[i].reason \in {"exception", "timeout"}

\* The technique the chain tries right after technique t failed.
Follows(t, u) ==
    CASE t.k = "lo" /\ t.i < NumLibreOfficePaths -> u = Tech("lo", t.i + 1)
      [] t.k = "lo" /\ t.i = NumLibreOfficePaths ->
            u.k \in {"docx2pdf", "matplotlib", "reportlab"}
      [] t.k = "browser" -> (u.k = "browser" /\ u.i > t.i) \/ u.k = "fpdf"
      [] OTHER -> FALSE

\* C9: an office-suite or browser process that runs into its timeout is an
\* ordinary failed technique: the chain goes on with the next candidate or
\* technique, and the job never fails on the timeout itself.
C9_TimeoutContinuesChain ==
    \A i \in 1..Len(attempts) :
        attempts[i].reason = "timeout" =>
            /\ attempts[i].tech.k \in {"lo", "browser"}
            /\ attempts[i].status = "failed"
            /\ i = Len(attempts) => pc = "Attempting" /\ pos < Len(TheChain)
            /\ i < Len(attempts) => Follows(attempts[i].tech, attempts[i + 1].tech)

C9_Witness ==
    \E i \in 1..Len(attempts) :
        /\ attempts[i].reason = "timeout"
        /\ i < Len(attempts)
        /\ attempts[i + 1].status # "running"

\* C10: every dispatched job eventually reaches Success or Failed; no
\* technique keeps it in Attempting forever.
C10_JobTerminates ==
    (pc = "Attempting") ~> (pc \in {"Success", "Failed"})

\* The value at the bottom of a return value's nesting is the path of an
\* existing file.
BottomsOutInFile(val, f) == val.bottom = "str" /\ PathExists(f, val.path)

\* C11: a strategy that returns the path p of an existing file bare, as
\* {output_path: p} or as {output_path: {output_path: p}} makes convert_file
\* return a result whose output_path is p, in all three cases.
C11_ThreeShapesSamePath ==
    (pc # "Returned" /\ ret.depth <= 2 /\ BottomsOutInFile(ret, fs)) =>
        /\ pc = "Success"
        /\ error = NoError
        /\ result.output_path = ret.path

C11_Witness ==
    /\ pc = "Success"
    /\ ret = DictVal(DictVal(StrVal("ALT")))
    /\ result.output_path = "ALT"

\* C12: the normalizer unwraps to any depth: a record nested k >= 1 levels
\* deep whose innermost output_path is the path p of an existing file
\* normalizes to p.
C12_UnwrapsAnyDepth ==
    (pc # "Returned" /\ ret.depth >= 1 /\ BottomsOutInFile(ret, fs)) =>
        /\ pc = "Success"
        /\ result.output_path = ret.path

\* The return value bottoms out in a non-empty path of a file that exists
\* and is not zero-length.
Usable(val, f) ==
    /\ val.bottom = "str" /\ val.path # ""
    /\ PathExists(f, val.path) /\ NonEmpty(f[val.path])

\* C13: a return value that does not unwrap to a usable path (None, a
\* record without output_path, a value that is no path, an empty path, a
\* path of a missing or zero-length file) makes convert_file fail with the
\* malformed-result error: neither the not-supported error nor a success.
C13_UnusableIsMalformed ==
    (pc # "Returned" /\ ~Usable(ret, fs)) =>
        /\ pc = "Failed"
        /\ error.kind \in {"Malformed", "OutputMissing"}

C15_UnsupportedTouchesNothing ==
    (pc # "Pending" /\ job.to_format \notin SupportedFormats(job.input_ext)) =>
        /\ pc = "Failed"
        /\ error = NotSupportedError
        /\ strategy = "none"
        /\ attempts = <<>> /\ pos = 0 /\ cur = "idle" /\ toolRuns = 0
        /\ fs = [p \in Paths |-> Missing]
        /\ result.output_path = ""
        /\ ~ENABLED Next

C15_Witness ==
    /\ pc = "Failed"
    /\ job.input_ext = "gif" /\ job.to_format = "pdf"
    /\ error = NotSupportedError
    /\ attempts = <<>>

C16_ArchiveIffSeveralPages ==
    (eff.done /\ call.fn = "pdf_to_images" /\ call.raster = "ok") =>
        /\ call.pages > 1 <=>
              (pc = "Success" /\ result.output_path = "ALT" /\ fs.ALT.st = "full")
        /\ call.pages = 1 =>
              /\ pc = "Success"
              /\ result.output_path = "OUT"
              /\ fs.OUT.st = "full"
              /\ fs.ALT = Missing

\* C17: for a PDF of N > 1 pages converted to jpg or png the archive holds
\* exactly N entries, one per page and in page order, named page_1 ..
\* page_N with the requested image extension, all names different.
C17_ArchiveEntriesPerPage ==
    (eff.done /\ call.fn = "pdf_to_images" /\ call.raster = "ok"
        /\ call.pages > 1) =>
        /\ Len(eff.entries) = call.pages
        /\ \A k \in 1..Len(eff.entries) :
              /\ eff.entries[k].name = <<"page_", k, ".", call.img_format>>
              /\ eff.entries[k].image = k
              /\ \A n \in 1..Len(eff.entries) :
                    n # k => eff.entries[n].name # eff.entries[k].name

\* C18: pdf_to_images rasterizes at 100 * quality DPI, so the DPI used at
\* quality 1, 2, 3 is 100, 200, 300: strictly increasing.
C18_DpiScalesWithQuality ==
    (eff.done /\ call.fn = "pdf_to_images") =>
        /\ eff.dpi = 100 * call.quality
        /\ eff.dpi = ImageDpi(call.quality)
        /\ \A q \in Qualities :
              /\ q < call.quality => ImageDpi(q) < eff.dpi
              /\ q > call.quality => ImageDpi(q) > eff.dpi

C18_Witness ==
    /\ eff.done
    /\ call.fn = "pdf_to_images" /\ call.quality = 3
    /\ eff.dpi = 300
    /\ pc = "Success"

\* C20: pdf_to_searchable_pdf looks for a text layer first: for an input
\* PDF that has one, OCR is never run and the artifact is an unchanged
\* copy of the input, whether or not the OCR library and the OCR binary
\* are available.
C20_TextLayerCopiedThrough ==
    (eff.done /\ call.fn = "pdf_to_searchable_pdf" /\ call.text = "text"
        /\ call.copy = "ok" /\ call.merge = "ok") =>
        /\ ~eff.ocr
        /\ pc = "Success"
        /\ result.output_path = "OUT"
        /\ eff.content = "copy"

\* C21: when the OCR engine is missing, be it that the OCR library cannot
\* be imported or that the OCR binary cannot be run, pdf_to_searchable_pdf
\* still ends in Success and its artifact is an informational page followed
\* by the pages of the original PDF.
C21_MissingEngineGivesNoticeAndOriginal ==
    (eff.done /\ call.fn = "pdf_to_searchable_pdf"
        /\ (~call.lib \/ ~call.binary)
        /\ call.copy = "ok" /\ call.merge = "ok") =>
        /\ pc = "Success"
        /\ result.output_path = "OUT"
        /\ eff.content = "notice+original"

\* The artifact stands in for a conversion that did not take place: the
\* source without OCR, alone or behind the instructions page.
Degraded ==
    /\ eff.done /\ call.fn = "pdf_to_searchable_pdf"
    /\ pc = "Success"
    /\ call.text # "text"
    /\ eff.content \in {"copy", "notice+original"}

\* C22: whenever a strategy returns a degraded stand-in instead of a real
\* conversion (the copy without OCR of searchable_pdf, the notice file of
\* CAD), the result convert_file returns carries a non-empty warnings
\* sequence that says so.
C22_DegradedResultCarriesWarnings ==
    Degraded =>
        /\ "warnings" \in DOMAIN result
        /\ result.warnings # <<>>

\* C29: routing is done on normalized tokens: calls of convert_file whose
\* input extension and to_format differ only in letter case select the
\* same strategy.
C29_RoutingIgnoresCase ==
    pc # "Pending" =>
        strategy = Route(Lower(job.input_ext), Lower(job.to_format))

\* The output aliases of /api/convert.
Aliases == {"scannable_pdf", "scanned_pdf", "searchable_pdf"}

\* The requests whose conversion has been started.
Started == {j \in Jobs : app.on /\ app.req[j].strategy # "none"}

\* C28 (as stated): every alias request gets an artifact name with the
\* extension pdf, and two requests with different aliases are routed to
\* different strategies.
C28_AliasesRouteToDistinctStrategies ==
    app.on =>
        \A j \in Started, k \in Started :
            (app.req[j].to_format \in Aliases /\ app.req[k].to_format \in Aliases) =>
                /\ app.req[j].output_filename = <<"report", "pdf">>
                /\ (app.req[j].to_format # app.req[k].to_format =>
                        app.req[j].strategy # app.req[k].strategy)

\* C28 (amended): every alias request gets an artifact name with the
\* extension pdf and, once answered with success, the response format pdf;
\* scannable_pdf and scanned_pdf are both routed to pdf_to_scannable_pdf and
\* searchable_pdf to pdf_to_searchable_pdf.
C28_AliasesNamedPdfAndRouted ==
    app.on =>
        \A j \in Started :
            app.req[j].to_format \in Aliases =>
                /\ app.req[j].output_filename = <<"report", "pdf">>
                /\ app.req[j].strategy =
                       (IF app.req[j].to_format = "searchable_pdf"
                        THEN "pdf_to_searchable_pdf"
                        ELSE "pdf_to_scannable_pdf")
                /\ (app.req[j].pc = "done" /\ app.req[j].response # "error" =>
                        app.req[j].response = "pdf")

\* C28 witness: two requests answered with success, one for scannable_pdf
\* and one for scanned_pdf, both served by the same strategy.
C28_Witness ==
    /\ app.on
    /\ \E j \in Jobs, k \in Jobs :
        /\ app.req[j].pc = "done" /\ app.req[j].response = "pdf"
        /\ app.req[k].pc = "done" /\ app.req[k].response = "pdf"
        /\ app.req[j].to_format = "scannable_pdf"
        /\ app.req[k].to_format = "scanned_pdf"
        /\ app.req[j].strategy = app.req[k].strategy

\* C23: every file a request writes lies inside the subdirectory named by
\* its own file_id, and no path is written by two requests.
C23_WritesStayInJobDirectory ==
    app.on =>
        /\ \A j \in Jobs : \A p \in app.wrote[j] : p.dir = j
        /\ \A j \in Jobs, k \in Jobs :
               j # k => app.wrote[j] \cap app.wrote[k] = {}

\* The requests that have been received and not yet answered.
InFlight == {j \in Jobs : app.on /\ app.req[j].pc \notin {"idle", "done"}}

\* C25: no step removes the upload directory, the result directory or the
\* metadata file of a request that has not been answered yet.
C25_SweepSparesJobsInFlight ==
    [][app.on =>
        \A j \in InFlight : \A folder \in Folders :
            app.top[<<folder, j>>].kind # "absent" =>
                app'.top[<<folder, j>>].kind # "absent"]_vars

\* The record of the last save_metadata call of a request.
LastSaved(j) ==
    IF \/ app.req[j].pc = "meta2w"
       \/ app.req[j].pc = "done" /\ app.req[j].response # "error"
    THEN FinalMetadata(j, app.req[j].to_format)
    ELSE FirstMetadata(j, app.req[j].to_format)

\* C27: a get_metadata call never returns a partially written record; it
\* returns None exactly if there is no metadata file of that id (never
\* saved, or swept); otherwise it returns exactly the record of the last
\* save_metadata call.
C27_MetadataReadsWholeRecord ==
    [][(app.on /\ app'.read # app.read) =>
        LET r == app'.read IN
        /\ r.st # "partial"
        /\ (r.st = "none") = (app.top[<<"metadata", r.id>>].kind = "absent")
        /\ (r.st = "record" => r.rec = LastSaved(r.id))]_vars

C24_FontIndependentOfEarlierJobs ==
    (eff.done /\ call.fn = "txt_to_pdf" /\ eff.method = "reportlab") =>
        eff.font = ChooseFont({}, app.files)

\* C30: when a conversion that ended in Success with a non-empty artifact
\* is run again with the same arguments, the second run ends in Success
\* too, with an existing, non-empty artifact.
C30_SecondRunSucceedsToo ==
    (/\ call.fn = "rerun" /\ call.run = 2
     /\ NonEmpty(call.first)
     /\ pc \in {"Success", "Failed"}) =>
        /\ pc = "Success"
        /\ PathExists(fs, result.output_path)
        /\ NonEmpty(fs[result.output_path])

\* C39: the width and the height image_to_pdf gives the image are at least
\* 1 pixel and at least what a lower quality gives the same image.
C39_SizeGrowsWithQuality ==
    (eff.done /\ call.fn = "image_to_pdf") =>
        /\ eff.width >= 1 /\ eff.height >= 1
        /\ \A q \in Qualities :
               q < call.quality =>
                   /\ Scaled(call.width, q) <= eff.width
                   /\ Scaled(call.height, q) <= eff.height

\* C33 (as stated): at every quality, every page of a scannable PDF is
\* blurred with radius 0.5 and gets 3000 noise pixels.
C33_EveryPageDegradedAtEveryQuality ==
    (eff.done /\ call.fn = "pdf_to_scannable_pdf" /\ pc = "Success") =>
        /\ Len(eff.processed) = call.pages
        /\ \A k \in 1..Len(eff.processed) :
               /\ eff.processed[k].blur = BlurRadiusTenths
               /\ eff.processed[k].noise = NoisePixels

\* C33 (amended): at quality 1 and 2 every page of a scannable PDF is
\* blurred with radius 0.5 and gets 3000 noise pixels, whatever the page
\* size; at quality 3 no page is blurred or gets noise.
C33_PagesDegradedBelowQuality3 ==
    (eff.done /\ call.fn = "pdf_to_scannable_pdf" /\ pc = "Success") =>
        /\ Len(eff.processed) = call.pages
        /\ \A k \in 1..Len(eff.processed) :
               IF call.quality < 3
               THEN /\ eff.processed[k].blur = BlurRadiusTenths
                    /\ eff.processed[k].noise = NoisePixels
               ELSE /\ eff.processed[k].blur = 0
                    /\ eff.processed[k].noise = 0

\* C33 witness: a scannable PDF of several large pages made at quality 2.
C33_Witness ==
    /\ eff.done /\ call.fn = "pdf_to_scannable_pdf" /\ pc = "Success"
    /\ call.quality = 2 /\ call.pages >= 2 /\ call.side >= 2
    /\ eff.processed[call.pages].noise = NoisePixels

\* The OCR branch is entered (the engine is there and no text layer was
\* copied through) and something in it goes wrong.
OcrError ==
    /\ call.lib /\ call.binary
    /\ ~(call.text = "text" /\ call.copy = "ok")
    /\ (call.ocr # "ok" \/ call.layer # "ok")

\* C38 (as stated): pdf_to_searchable_pdf fails only if the source cannot
\* be copied to output_path; any error of rasterization, OCR, text-layer
\* merge or writing ends in Success with a copy of the input there.
C38_AnyErrorEndsInCopy ==
    (eff.done /\ call.fn = "pdf_to_searchable_pdf") =>
        /\ pc = "Failed" => call.copy = "raise"
        /\ (OcrError /\ call.copy = "ok") =>
               /\ pc = "Success"
               /\ result.output_path = "OUT" /\ NonEmpty(fs.OUT)
               /\ eff.content = "copy"

\* C38 (amended): pdf_to_searchable_pdf fails only if the source cannot be
\* copied to output_path; an error of rasterization, OCR or writing ends in
\* Success with a copy of the input there; a text layer that cannot be
\* made or merged ends in Success with the page as image only.
C38_ErrorEndsInCopyOrImageOnly ==
    (eff.done /\ call.fn = "pdf_to_searchable_pdf") =>
        /\ pc = "Failed" => call.copy = "raise"
        /\ (OcrError /\ call.copy = "ok") =>
               /\ pc = "Success"
               /\ result.output_path = "OUT" /\ NonEmpty(fs.OUT)
               /\ eff.content = (IF call.ocr # "ok" THEN "copy"
                                 ELSE "image only")

\* C38 witness: rasterization raised and the job succeeded with a copy of
\* the input.
C38_Witness ==
    /\ eff.done /\ call.fn = "pdf_to_searchable_pdf"
    /\ OcrError /\ call.ocr = "raster" /\ call.copy = "ok"
    /\ pc = "Success" /\ eff.content = "copy"

\* C31: whatever the bytes of the input and whichever branch of the
\* reading fires, a txt -> pdf job whose PDF writer works ends in Success
\* with a non-empty PDF at output_path.
C31_EveryBranchGivesPdf ==
    (eff.done /\ call.fn = "txt_to_pdf" /\ call.fpdf = "ok") =>
        /\ pc = "Success"
        /\ result.output_path = "OUT" /\ NonEmpty(fs.OUT)

\* C32: an md -> pdf job on a readable Markdown file with the markdown
\* package installed renders the HTML, writes the PDF and ends in Success.
C32_MarkdownGivesPdf ==
    (eff.done /\ call.fn = "markdown_to_pdf" /\ call.readable /\ call.lib) =>
        /\ eff.html
        /\ pc = "Success"
        /\ result.output_path = "OUT" /\ NonEmpty(fs.OUT)

\* C34: as long as the metadata record of a completed job exists, its
\* artifact exists, and no download of the job answers that the file is
\* missing.
C34_MetadataImpliesArtifact ==
    app.on =>
        \A j \in Jobs :
            (/\ app.req[j].pc = "done"
             /\ app.req[j].response \notin {"error", "rejected"}) =>
                /\ app.meta[j].st # "absent" => app.art[j] # "none"
                /\ app.read.id = j => app.read.answer # "404 file missing"

\* C35: when /api/convert answers success, the file named in the metadata
\* lies in the job's result directory and holds what the strategy
\* returned: the artifact, or the archive it wrote at another path.
C35_AnsweredArtifactIsInPlace ==
    [][app.on =>
        \A j \in Jobs :
            (app.req[j].pc = "meta2w" /\ app'.req[j].pc = "done") =>
                /\ app'.meta[j].st = "written"
                /\ app'.meta[j].rec.output_filename = app.req[j].output_filename
                /\ app'.top[<<"results", j>>].kind = "dir"
                /\ app'.art[j] = (IF app.req[j].returned = "ALT"
                                  THEN "archive" ELSE "artifact")]_vars

\* C35 witness: a PNG job of several pages was answered with success and
\* the archive lies at the output path.
C35_Witness ==
    /\ app.on
    /\ \E j \in Jobs :
        /\ app.req[j].pc = "done" /\ app.req[j].response = "png"
        /\ app.req[j].returned = "ALT" /\ app.art[j] = "archive"

\* C36: a job whose conversion failed is answered with an error, its
\* metadata record has no output_filename, and no download of it sends a
\* file.
C36_FailedJobServesNothing ==
    app.on =>
        \A j \in Jobs :
            (/\ app.req[j].pc = "done"
             /\ app.req[j].strategy # "none"
             /\ app.req[j].returned = "none") =>
                /\ app.req[j].response = "error"
                /\ app.meta[j].st = "written" =>
                       "output_filename" \notin DOMAIN app.meta[j].rec
                /\ app.read.id = j => app.read.answer # "file"

\* C36 witness: a failed job whose record was read by a download that was
\* answered with an error.
C36_Witness ==
    /\ app.on
    /\ \E j \in Jobs :
        /\ app.req[j].pc = "done"
        /\ app.req[j].strategy # "none"
        /\ app.req[j].returned = "none"
        /\ app.meta[j].st = "written"
        /\ app.read.id = j /\ app.read.st = "record"
        /\ app.read.answer = "500"

\* C37: the step that answers a request with 400 leaves the upload, result
\* and metadata folders as they are: nothing is created and nothing swept.
C37_RejectedRequestTouchesNothing ==
    [][app.on =>
        \A j \in Jobs :
            (app.req[j].response # "rejected" /\ app'.req[j].response = "rejected") =>
                /\ app'.top = app.top
                /\ app'.meta = app.meta
                /\ app'.art = app.art
                /\ app'.wrote = app.wrote]_vars

\* C37 witness: a request was rejected while another job's upload, older
\* than the retention, is still there.
C37_Witness ==
    /\ app.on
    /\ \E j \in Jobs, k \in Jobs :
        /\ app.req[j].response = "rejected"
        /\ app.top[<<"uploads", k>>].kind = "dir"
        /\ app.top[<<"uploads", k>>].mtime < app.now - RetentionHours

====
